---- MODULE Spec2Model ----
(***************************************************************************)
(* WhiteMetal-State: the signal-to-backtest core.                          *)
(*                                                                         *)
(*  - engine/backtest/trade_engine.py : trade_engine_cycle_basic, the      *)
(*    day-by-day position state machine (specification Spec).              *)
(*  - engine/events/cycles.py : detect_cycles / _find_turning_points       *)
(*    (specification CycleSpec).                                           *)
(*  - engine/events/detector.py : detect_events (specification EventSpec). *)
(*  - engine/decision/engine.py : select_action and its stages             *)
(*    (specification DecisionSpec).                                        *)
(*  - engine/backtest/walkforward.py : walk_forward_validate               *)
(*    (specification WalkSpec).                                            *)
(*  - engine/main.py : run_pipeline, which runs the trade engine on the    *)
(*    turning points detect_cycles finds (specification PipelineSpec) and  *)
(*    select_action on the events detect_events finds (SignalSpec).        *)
(*  - engine/decision/engine.py : the indicator filters after a SHAKEOUT   *)
(*    (specification ShakeoutSpec).                                        *)
(*  - engine/backtest/trade_engine.py : build_fees_sensitivity             *)
(*    (specification SensitivitySpec).                                     *)
(*  - engine/backtest/performance.py : compute_algorithm_score             *)
(*    (specification ScoreSpec) and _max_drawdown (DrawdownSpec).          *)
(*                                                                         *)
(* Numbers.  Python floats are modelled as exact rationals [n, d] (d > 0,  *)
(* lowest terms).  Running equity values, which the code compounds bar     *)
(* after bar, are kept on a 10^-4 grid (operator Fl), the precision the    *)
(* equity rows are published with; every other quantity (returns, sizes,   *)
(* stop levels) is exact until the code rounds it with round(x, k).        *)
(* Rounded trade fields are integers in units of 10^-k.                    *)
(* Dates are the bar indices themselves (strictly increasing, unique).     *)
(* Sequences are 1-based: Python closes[i] is closes[i + 1] here.          *)
(***************************************************************************)
EXTENDS Integers, Sequences, FiniteSets, TLC

(***************************************************************************)
(* Bounds of the model.                                                    *)
(***************************************************************************)
\* Largest number of price bars handed to trade_engine_cycle_basic.
MaxBars == 3

\* Largest number of price rows handed to detect_cycles.
MaxCloses == 5

\* Largest number of freely chosen closes at the end of a history handed to
\* detect_events.
MaxTail == 3

\* Largest number of cycle segments handed to select_action.
MaxCycles == 2

\* Largest number of bars handed to walk_forward_validate.
MaxTotal == 20

\* Largest train_size and test_size (below 12).
MaxSize == 6

\* Largest step.
MaxStep == 4

(***************************************************************************)
(* Rational arithmetic.                                                    *)
(***************************************************************************)
Abs(x) == IF x < 0 THEN -x ELSE x

RECURSIVE Gcd(_, _)
Gcd(a, b) == IF b = 0 THEN a ELSE Gcd(b, a % b)

\* n/d in lowest terms, d > 0.
R(n, d) ==
    LET g == Gcd(Abs(n), d)
    IN  [n |-> n \div g, d |-> d \div g]

Zero == R(0, 1)
One == R(1, 1)

RAdd(a, b) ==
    LET g == Gcd(a.d, b.d)
    IN  R(a.n * (b.d \div g) + b.n * (a.d \div g), (a.d \div g) * b.d)

RNeg(a) == [n |-> -a.n, d |-> a.d]

RSub(a, b) == RAdd(a, RNeg(b))

RMul(a, b) ==
    LET g1 == Gcd(Abs(a.n), b.d)
        g2 == Gcd(Abs(b.n), a.d)
    IN  R((a.n \div g1) * (b.n \div g2), (a.d \div g2) * (b.d \div g1))

\* b # 0
RDiv(a, b) ==
    RMul(a, IF b.n > 0 THEN [n |-> b.d, d |-> b.n] ELSE [n |-> -b.d, d |-> -b.n])

RLess(a, b) ==
    LET g == Gcd(a.d, b.d)
    IN  a.n * (b.d \div g) < b.n * (a.d \div g)

RLeq(a, b) == ~RLess(b, a)

RMin(a, b) == IF RLess(b, a) THEN b ELSE a

RMax(a, b) == IF RLess(a, b) THEN b ELSE a

RAbs(a) == [n |-> Abs(a.n), d |-> a.d]

Pow10(k) == 10 ^ k

\* floor(x * 10^k) and the remainder, by long division one decimal at a time
\* (q + r/d is the value still to be scaled by 10^k).
RECURSIVE ScaleDiv(_, _, _, _)
ScaleDiv(q, r, d, k) ==
    IF k = 0 \/ r = 0 THEN <<q * Pow10(k), r>>
    ELSE ScaleDiv(q * 10 + ((r * 10) \div d), (r * 10) % d, d, k - 1)

\* Python round(x, k): the nearest multiple of 10^-k, ties to even, returned
\* as the integer number of 10^-k units.
Round(x, k) ==
    LET qr == ScaleDiv(x.n \div x.d, x.n % x.d, x.d, k)
        q == qr[1]
        rem == qr[2]
    IN  IF 2 * rem < x.d THEN q
        ELSE IF 2 * rem > x.d THEN q + 1
        ELSE IF q % 2 = 0 THEN q ELSE q + 1

\* The float result of an operation on running equity values: the value kept
\* on the 10^-4 grid.
Fl(x) == R(Round(x, 4), Pow10(4))

\* Python None for an optional float.
None == <<>>

\* Python truthiness of an optional float: None and 0.0 are falsy.
Truthy(x) == x # None /\ x.n # 0

(***************************************************************************)
(* TradeSettings (trade_engine.py:10-23) and the inputs of one run.        *)
(***************************************************************************)
DefaultSettings ==
    [ cost_bps |-> 10, slippage_bps |-> 5, max_positions |-> 1,
      cooldown_days |-> 3, adx_min_soft |-> R(12, 1),
      atr_pct_min_soft |-> R(6, 1000), target_daily_vol |-> R(1, 100),
      min_position |-> R(1, 4), max_position |-> R(1, 1),
      stop_atr_multiple |-> R(5, 2), time_stop_days |-> 45 ]

\* The settings objects a run is called with: the defaults with the cooldown,
\* the time stop, the cost rates and the size range varied.
SettingsSet ==
    { [DefaultSettings EXCEPT !.cooldown_days = 0],
      [DefaultSettings EXCEPT !.cooldown_days = 1, !.time_stop_days = 2],
      [DefaultSettings EXCEPT !.cooldown_days = 2, !.time_stop_days = 1,
                              !.cost_bps = 0, !.slippage_bps = 0],
      [DefaultSettings EXCEPT !.cooldown_days = 0, !.time_stop_days = 0,
                              !.min_position = R(1, 2)] }

\* Closes of the price bars (close > 0).
Prices == {1, 2}

\* cycle_events.get(idx): the upper-cased kind of the turning point at a bar,
\* "NONE" when the bar has no turning point.
Events == {"NONE", "TROUGH", "PEAK"}

\* (adx_lookup.get(idx), atr_lookup.get(idx)) at a bar: values missing, an
\* ATR of 0.0, ADX below and at adx_min_soft, ATR/close below
\* atr_pct_min_soft, between the two thresholds and above target_daily_vol.
Indicators ==
    { <<None, None>>, <<R(10, 1), R(0, 1)>>, <<R(12, 1), R(1, 125)>>,
      <<R(10, 1), R(2, 5)>>, <<None, R(1, 2)>> }

(***************************************************************************)
(* State of trade_engine_cycle_basic.                                      *)
(***************************************************************************)
VARIABLES
    pc,                     \* "call" | "loop" | "done"
    settings,
    closes,                 \* closes of the bars processed so far
    cycle_events,           \* cycle_events.get(idx) of the bars processed so far
    trades,
    diagnostics,
    equity_strategy_gross,
    equity_strategy_net,
    equity_risk,
    equity_rows,
    in_position,
    entry_idx,              \* -1 models None
    entry_price,
    position_size,
    cooldown_until,
    max_close,
    min_close,
    equity_path,
    intraday_equity,
    fees_paid,
    adx_entry,              \* adx_lookup.get(entry_idx) of the open position
    atr_entry,              \* atr_lookup.get(entry_idx) of the open position
    payload,
    segments,               \* detect_cycles: the segments returned
    turning_points,         \* detect_cycles: the turning points returned
    events,                 \* detect_events: the events list
    baseline_low5,          \* detect_events: locals of the same names
    baseline_high20,
    volatility5,
    volatility20,
    cycles,                 \* select_action: the cycles argument
    indicator_context,      \* select_action: the indicator_context argument
    filter_action,          \* select_action: action after _apply_indicator_filters
    filter_rationale,       \* select_action: rationale after _apply_indicator_filters
    decision,               \* select_action: the mapping returned
    train_size,             \* walk_forward_validate: arguments and locals
    test_size,
    step,                   \* None or << s >> for the integer s
    anchor,
    runs,
    walk_result,            \* walk_forward_validate: the mapping returned
    prices,                 \* the closes of the price rows a caller of the engine holds
    indicator_series,       \* (adx, atr) per bar index of the series a caller holds
    scenario,               \* build_fees_sensitivity: number of the scenario being run
    scenario_results,       \* build_fees_sensitivity: payloads of the scenarios run
    sensitivity,            \* build_fees_sensitivity: the mapping returned
    weights,                \* compute_algorithm_score: the weights argument
    score,                  \* compute_algorithm_score: the score returned
    equity_curve,           \* _max_drawdown: the argument
    drawdowns               \* _max_drawdown: the values returned

vars ==
    << pc, settings, closes, cycle_events, trades, diagnostics,
       equity_strategy_gross, equity_strategy_net, equity_risk, equity_rows,
       in_position, entry_idx, entry_price, position_size, cooldown_until,
       max_close, min_close, equity_path, intraday_equity, fees_paid,
       adx_entry, atr_entry, payload, segments, turning_points,
       events, baseline_low5, baseline_high20, volatility5, volatility20,
       cycles, indicator_context, filter_action, filter_rationale, decision,
       train_size, test_size, step, anchor, runs, walk_result,
       prices, indicator_series, scenario, scenario_results, sensitivity,
       weights, score, equity_curve, drawdowns >>

\* The variables of each function other than the trade engine, and their
\* values while the function is not running.
cycleVars == << segments, turning_points >>

CycleIdle == segments = <<>> /\ turning_points = <<>>

eventVars == << events, baseline_low5, baseline_high20, volatility5, volatility20 >>

EventIdle ==
    /\ events = <<>>
    /\ baseline_low5 = 0
    /\ baseline_high20 = 0
    /\ volatility5 = 0
    /\ volatility20 = 0

decisionVars ==
    << cycles, indicator_context, filter_action, filter_rationale, decision >>

DecisionIdle ==
    /\ cycles = <<>>
    /\ indicator_context = None
    /\ filter_action = ""
    /\ filter_rationale = <<>>
    /\ decision = <<>>

walkVars == << train_size, test_size, step, anchor, runs, walk_result >>

WalkIdle ==
    /\ train_size = 0
    /\ test_size = 0
    /\ step = None
    /\ anchor = 0
    /\ runs = <<>>
    /\ walk_result = <<>>

\* The variables of the callers of the trade engine.
scoreVars == << weights, score, equity_curve, drawdowns >>

ScoreIdle ==
    /\ weights = None
    /\ score = <<>>
    /\ equity_curve = <<>>
    /\ drawdowns = <<>>

runVars ==
    << prices, indicator_series, scenario, scenario_results, sensitivity, scoreVars >>

RunIdle ==
    /\ prices = <<>>
    /\ indicator_series = <<>>
    /\ scenario = 0
    /\ scenario_results = <<>>
    /\ sensitivity = <<>>
    /\ ScoreIdle

otherVars == << eventVars, decisionVars, walkVars >>

OthersIdle == EventIdle /\ DecisionIdle /\ WalkIdle

(***************************************************************************)
(* Pure helpers of trade_engine.py.                                        *)
(***************************************************************************)
\* _clamp (trade_engine.py:30-31)
Clamp(value, lower, upper) == RMax(lower, RMin(upper, value))

\* Variant of SoftPositionSize: the product of the multipliers is returned
\* without the clamp.
SoftPositionSizeUnclamped(adx, atr, close, s) ==
    LET size0 == s.max_position
        size1 == IF adx # None /\ RLess(adx, s.adx_min_soft)
                 THEN RMul(size0, R(1, 2)) ELSE size0
        atr_pct == IF Truthy(atr) /\ close # 0 THEN RDiv(atr, R(close, 1)) ELSE None
        size2 == IF atr_pct # None /\ RLess(atr_pct, s.atr_pct_min_soft)
                 THEN RMul(size1, R(1, 2)) ELSE size1
    IN  IF Truthy(atr_pct) /\ RLess(s.target_daily_vol, atr_pct)
        THEN RMul(size2, R(9, 10)) ELSE size2

\* _soft_position_size (trade_engine.py:34-47)
SoftPositionSize(adx, atr, close, s) ==
    LET size0 == s.max_position
        size1 == IF adx # None /\ RLess(adx, s.adx_min_soft)
                 THEN RMul(size0, R(1, 2)) ELSE size0
        atr_pct == IF Truthy(atr) /\ close # 0 THEN RDiv(atr, R(close, 1)) ELSE None
        size2 == IF atr_pct # None /\ RLess(atr_pct, s.atr_pct_min_soft)
                 THEN RMul(size1, R(1, 2)) ELSE size1
        size3 == IF Truthy(atr_pct) /\ RLess(s.target_daily_vol, atr_pct)
                 THEN RMul(size2, R(9, 10)) ELSE size2
    IN  Clamp(size3, s.min_position, s.max_position)

\* Variant of DrawdownLoop: the peak stays the first value.
RECURSIVE DrawdownLoopFirstPeak(_, _, _, _)
DrawdownLoopFirstPeak(path, i, peak, max_dd) ==
    IF i > Len(path) THEN max_dd
    ELSE LET value == path[i]
             drawdown == IF peak.n # 0 THEN RDiv(RSub(value, peak), peak) ELSE Zero
         IN  IF RLess(drawdown, max_dd)
             THEN DrawdownLoopFirstPeak(path, i + 1, peak, drawdown)
             ELSE DrawdownLoopFirstPeak(path, i + 1, peak, max_dd)

\* The loop of both _max_drawdown functions (trade_engine.py:53-57,
\* performance.py:239-243)
RECURSIVE DrawdownLoop(_, _, _, _)
DrawdownLoop(path, i, peak, max_dd) ==
    IF i > Len(path) THEN max_dd
    ELSE LET value == path[i]
             peak1 == IF RLess(peak, value) THEN value ELSE peak
             drawdown == IF peak1.n # 0 THEN RDiv(RSub(value, peak1), peak1) ELSE Zero
         IN  IF RLess(drawdown, max_dd)
             THEN DrawdownLoop(path, i + 1, peak1, drawdown)
             ELSE DrawdownLoop(path, i + 1, peak1, max_dd)

\* _max_drawdown (trade_engine.py:50-58)
MaxDrawdown(equity_path_) ==
    DrawdownLoop(equity_path_, 1, IF Len(equity_path_) > 0 THEN equity_path_[1] ELSE One, Zero)

\* cost_rate (trade_engine.py:185)
CostRate(s) == R(s.cost_bps + s.slippage_bps, 10000)

\* Variant of NetReturn: the cost rate raises the exit price and lowers the
\* entry price.
NetReturnCostsReversed(entry_price_, exit_close, cost_rate, size) ==
    LET entry_effective == RMul(R(entry_price_, 1), RSub(One, cost_rate))
        exit_effective == RMul(R(exit_close, 1), RAdd(One, cost_rate))
        net_unscaled == IF entry_effective.n # 0
                        THEN RDiv(RSub(exit_effective, entry_effective), entry_effective)
                        ELSE Zero
    IN  RMul(net_unscaled, size)

\* net_unscaled * position_size of a regular exit (trade_engine.py:229-234)
NetReturn(entry_price_, exit_close, cost_rate, size) ==
    LET entry_effective == RMul(R(entry_price_, 1), RAdd(One, cost_rate))
        exit_effective == RMul(R(exit_close, 1), RSub(One, cost_rate))
        net_unscaled == IF entry_effective.n # 0
                        THEN RDiv(RSub(exit_effective, entry_effective), entry_effective)
                        ELSE Zero
    IN  RMul(net_unscaled, size)

\* gross_return, mfe, mae: (x - entry_price) / entry_price, 0.0 for entry_price 0
\* (trade_engine.py:228, 236-237)
Excursion(x, entry_price_) ==
    IF entry_price_ # 0 THEN R(x - entry_price_, entry_price_) ELSE Zero

\* Variant of ExitReason: the time stop fires one bar late.
ExitReasonLateTimeStop(idx, close, event) ==
    IF event = "PEAK" THEN "PEAK_CONFIRMED"
    ELSE IF idx - entry_idx > settings.time_stop_days THEN "TIME_STOP"
    ELSE IF Truthy(atr_entry)
            /\ RLeq(R(close, 1),
                    RSub(R(entry_price, 1), RMul(settings.stop_atr_multiple, atr_entry)))
         THEN "STOP_ATR"
    ELSE ""

\* Variant of ExitReason: a PEAK closes nothing.
ExitReasonIgnoresPeak(idx, close, event) ==
    IF idx - entry_idx >= settings.time_stop_days THEN "TIME_STOP"
    ELSE IF Truthy(atr_entry)
            /\ RLeq(R(close, 1),
                    RSub(R(entry_price, 1), RMul(settings.stop_atr_multiple, atr_entry)))
         THEN "STOP_ATR"
    ELSE ""

\* Variant of ExitReason: the time stop is tested before the peak.
ExitReasonTimeFirst(idx, close, event) ==
    IF idx - entry_idx >= settings.time_stop_days THEN "TIME_STOP"
    ELSE IF event = "PEAK" THEN "PEAK_CONFIRMED"
    ELSE IF Truthy(atr_entry)
            /\ RLeq(R(close, 1),
                    RSub(R(entry_price, 1), RMul(settings.stop_atr_multiple, atr_entry)))
         THEN "STOP_ATR"
    ELSE ""

\* The exit reason of an open position at bar idx (trade_engine.py:219-225);
\* "" models None.
ExitReason(idx, close, event) ==
    IF event = "PEAK" THEN "PEAK_CONFIRMED"
    ELSE IF idx - entry_idx >= settings.time_stop_days THEN "TIME_STOP"
    ELSE IF Truthy(atr_entry)
            /\ RLeq(R(close, 1),
                    RSub(R(entry_price, 1), RMul(settings.stop_atr_multiple, atr_entry)))
         THEN "STOP_ATR"
    ELSE ""

\* Variant of NextTradeId: ids counted from 0.
NextTradeIdFromZero == Len(trades)

\* id of the next trade: len(trades) + 1 (trade_engine.py:247, 328)
NextTradeId == Len(trades) + 1

\* Variant of CooldownUntil: the cooldown ends with the exit bar.
CooldownUntilExitBar(idx) == idx

\* cooldown_until after an exit at bar idx (trade_engine.py:268)
CooldownUntil(idx) == idx + settings.cooldown_days

\* `idx < cooldown_until` (trade_engine.py:275)
BlockedByCooldown(idx, cooldown) == idx < cooldown

\* Variant of RunningMax: the bar's close is not looked at.
RunningMaxStale(close, maxc) == maxc

\* `if close > max_close: max_close = close` (trade_engine.py:211-212)
RunningMax(close, maxc) == IF close > maxc THEN close ELSE maxc

\* `if close < min_close: min_close = close` (trade_engine.py:213-214)
RunningMin(close, minc) == IF close < minc THEN close ELSE minc

\* Variant of AlreadyInPosition: every bar met with a position open counts.
AlreadyInPositionAnyEvent(in_pos, event) == in_pos

\* `elif in_position and event == "TROUGH"` (trade_engine.py:293)
AlreadyInPosition(in_pos, event) == in_pos /\ event = "TROUGH"

\* closes[-1], the close of the last bar (trade_engine.py:309, 311, 334)
LastClose == closes[Len(closes)]

\* Variant of MissingExit: entry_idx tested for truth, so that bar 0 counts as
\* no entry.
MissingExitTruthy == in_position /\ entry_idx > 0

\* `if in_position and entry_idx is not None` (trade_engine.py:307)
MissingExit == in_position /\ entry_idx # -1

\* fee_in / fee_out = equity_strategy_net * position_size * cost_rate
\* (trade_engine.py:240, 288, 321)
Fee(net, size) == Fl(RMul(Fl(RMul(net, size)), CostRate(settings)))

\* The trade appended by a regular exit at bar idx (trade_engine.py:228-263).
\* net is equity_strategy_net after the day's compounding and before the fee;
\* maxc, minc and path are max_close, min_close and equity_path as lines
\* 211-217 have just updated them.
ExitTrade(idx, close, exit_reason, net, maxc, minc, path) ==
    LET cost_rate == CostRate(settings)
        gross_return == Excursion(close, entry_price)
        net_return == NetReturn(entry_price, close, cost_rate, position_size)
        hold_days == idx - entry_idx
        mfe == Excursion(maxc, entry_price)
        mae == Excursion(minc, entry_price)
        max_dd_trade == MaxDrawdown(path)
        fee_out == Fee(net, position_size)
    IN  [ id |-> NextTradeId,
          entry_date |-> entry_idx,
          entry_price |-> Round(R(entry_price, 1), 4),
          entry_reason |-> "TROUGH_CONFIRMED",
          size |-> Round(position_size, 3),
          exit_date |-> idx,
          exit_price |-> Round(R(close, 1), 4),
          exit_reason |-> exit_reason,
          gross_return |-> Round(gross_return, 4),
          net_return |-> Round(net_return, 4),
          fees_paid |-> Round(fee_out, 6),
          hold_days |-> hold_days,
          mfe |-> Round(mfe, 4),
          mae |-> Round(mae, 4),
          max_drawdown_trade |-> Round(max_dd_trade, 4) ]

\* The trade appended after the loop for a position still open
\* (trade_engine.py:309-344).
ForcedExitTrade ==
    LET cost_rate == CostRate(settings)
        last == LastClose
        gross_return == IF entry_price # 0 THEN R(last - entry_price, entry_price) ELSE Zero
        entry_effective == RMul(R(entry_price, 1), RAdd(One, cost_rate))
        exit_effective == RMul(R(last, 1), RSub(One, cost_rate))
        net_unscaled == IF entry_effective.n # 0
                        THEN RDiv(RSub(exit_effective, entry_effective), entry_effective)
                        ELSE Zero
        net_return == RMul(net_unscaled, position_size)
        hold_days == Len(closes) - entry_idx - 1
        mfe == IF entry_price # 0 THEN R(max_close - entry_price, entry_price) ELSE Zero
        mae == IF entry_price # 0 THEN R(min_close - entry_price, entry_price) ELSE Zero
        max_dd_trade == MaxDrawdown(equity_path)
        fee_out == Fee(equity_strategy_net, position_size)
    IN  [ id |-> NextTradeId,
          entry_date |-> entry_idx,
          entry_price |-> Round(R(entry_price, 1), 4),
          entry_reason |-> "TROUGH_CONFIRMED",
          size |-> Round(position_size, 3),
          exit_date |-> Len(closes) - 1,
          exit_price |-> Round(R(last, 1), 4),
          exit_reason |-> "FORCED_EXIT_END_OF_DATA",
          gross_return |-> Round(gross_return, 4),
          net_return |-> Round(net_return, 4),
          fees_paid |-> Round(fee_out, 6),
          hold_days |-> hold_days,
          mfe |-> Round(mfe, 4),
          mae |-> Round(mae, 4),
          max_drawdown_trade |-> Round(max_dd_trade, 4) ]

\* One equity row (trade_engine.py:296-305).
EquityRow(idx, close, gross, net, risk) ==
    LET buy_hold_base == IF Len(closes) > 0 THEN closes[1] ELSE close
        buy_hold_value == IF buy_hold_base # 0
                          THEN RMul(R(100, 1), R(close, buy_hold_base))
                          ELSE R(100, 1)
    IN  [ date |-> idx,
          buy_hold |-> Round(buy_hold_value, 4),
          strategy_gross |-> Round(gross, 4),
          strategy_net |-> Round(net, 4),
          risk_managed |-> Round(risk, 4) ]

(***************************************************************************)
(* trade_engine_cycle_basic (trade_engine.py:131-460).                     *)
(***************************************************************************)
\* Variant of EmptyResult: the diagnostics of a run come with the payload.
EmptyResultWithDiagnostics ==
    [ meta |-> <<>>, trades |-> <<>>, equity_curves |-> <<>>,
      risk_metrics |-> <<>>, diagnostics |-> diagnostics ]

\* The payload of a call with zero price bars (trade_engine.py:141-148); {}
\* and [] are both the empty sequence.
EmptyResult ==
    [ meta |-> <<>>, trades |-> <<>>, equity_curves |-> <<>>,
      risk_metrics |-> <<>>, diagnostics |-> <<>> ]

\* The state at the call: the settings are chosen, the locals hold the values
\* lines 164-191 give them, no bar has been read.
Locals ==
    /\ cycle_events = <<>>
    /\ trades = <<>>
    /\ diagnostics =
         [ cycle_events |-> [trough_confirmed |-> 0, peak_confirmed |-> 0],
           blocked |-> [cooldown |-> 0, already_in_position |-> 0, missing_exit |-> 0],
           notes |-> <<"No hard filters enabled (soft sizing only).">>,
           last_detected_trough |-> -1,
           last_detected_peak |-> -1 ]
    /\ equity_strategy_gross = R(100, 1)
    /\ equity_strategy_net = R(100, 1)
    /\ equity_risk = R(100, 1)
    /\ equity_rows = <<>>
    /\ in_position = FALSE
    /\ entry_idx = -1
    /\ entry_price = 0
    /\ position_size = Zero
    /\ cooldown_until = -1
    /\ max_close = 0
    /\ min_close = 0
    /\ equity_path = <<>>
    /\ intraday_equity = One
    /\ fees_paid = Zero
    /\ adx_entry = None
    /\ atr_entry = None
    /\ payload = <<>>

Init ==
    /\ pc = "call"
    /\ settings \in SettingsSet
    /\ closes = <<>>
    /\ Locals
    /\ CycleIdle
    /\ OthersIdle
    /\ RunIdle

\* `if not prices: return {...}` (trade_engine.py:141-148)
ReturnEmptyStep ==
    /\ pc = "call"
    /\ pc' = "done"
    /\ payload' = EmptyResult
    /\ UNCHANGED << settings, closes, cycle_events, trades, diagnostics,
                    equity_strategy_gross, equity_strategy_net, equity_risk,
                    equity_rows, in_position, entry_idx, entry_price,
                    position_size, cooldown_until, max_close, min_close,
                    equity_path, intraday_equity, fees_paid, adx_entry, atr_entry,
                    segments, turning_points, otherVars >>

ReturnEmpty == ReturnEmptyStep /\ UNCHANGED runVars

\* One iteration of `for idx, close in enumerate(closes)` (trade_engine.py:193-305)
\* on the bar (close, event).  adx_lookup.get(idx) and atr_lookup.get(idx) are
\* read only by an iteration that opens a position (lines 278-279), so they
\* are drawn there.
BarStep(close, event) ==
    LET idx == Len(closes)
        \* lines 194-200
        ce == diagnostics.cycle_events
        diag1 ==
            IF event = "TROUGH"
            THEN [diagnostics EXCEPT !.cycle_events.trough_confirmed = @ + 1,
                                     !.last_detected_trough = idx]
            ELSE IF event = "PEAK"
            THEN [diagnostics EXCEPT !.cycle_events.peak_confirmed = @ + 1,
                                     !.last_detected_peak = idx]
            ELSE diagnostics
        \* lines 202-204
        daily_change == IF idx > 0 /\ closes[idx] # 0
                        THEN R(close - closes[idx], closes[idx]) ELSE Zero
        factor == RAdd(One, RMul(daily_change, position_size))
        \* lines 206-217
        gross1 == IF in_position THEN Fl(RMul(equity_strategy_gross, factor))
                  ELSE equity_strategy_gross
        net1 == IF in_position THEN Fl(RMul(equity_strategy_net, factor))
                ELSE equity_strategy_net
        risk1 == IF in_position THEN Fl(RMul(equity_risk, factor)) ELSE equity_risk
        max1 == IF in_position THEN RunningMax(close, max_close) ELSE max_close
        min1 == IF in_position THEN RunningMin(close, min_close) ELSE min_close
        intra1 == IF in_position THEN Fl(RMul(intraday_equity, factor))
                  ELSE intraday_equity
        path1 == IF in_position THEN Append(equity_path, intra1) ELSE equity_path
        \* lines 219-225
        exit_reason == IF in_position THEN ExitReason(idx, close, event) ELSE ""
        exiting == exit_reason # ""
        \* lines 228-263
        fee_out == Fee(net1, position_size)
        trade == ExitTrade(idx, close, exit_reason, net1, max1, min1, path1)
        trades2 == IF exiting THEN Append(trades, trade) ELSE trades
        net2 == IF exiting THEN RSub(net1, fee_out) ELSE net1
        risk2 == IF exiting THEN RSub(risk1, fee_out) ELSE risk1
        fees2 == IF exiting THEN RAdd(fees_paid, fee_out) ELSE fees_paid
        \* lines 265-272
        in2 == in_position /\ ~exiting
        cooldown2 == IF exiting THEN CooldownUntil(idx) ELSE cooldown_until
        \* lines 274-294
        blocked_cd == ~in2 /\ event = "TROUGH" /\ BlockedByCooldown(idx, cooldown2)
        entering == ~in2 /\ event = "TROUGH" /\ ~BlockedByCooldown(idx, cooldown2)
        blocked_pos == AlreadyInPosition(in2, event)
        diag2 ==
            IF blocked_cd THEN [diag1 EXCEPT !.blocked.cooldown = @ + 1]
            ELSE IF blocked_pos THEN [diag1 EXCEPT !.blocked.already_in_position = @ + 1]
            ELSE diag1
    IN  /\ closes' = Append(closes, close)
        /\ cycle_events' = Append(cycle_events, event)
        /\ diagnostics' = diag2
        /\ trades' = trades2
        /\ equity_strategy_gross' = gross1
        /\ cooldown_until' = cooldown2
        /\ entry_price' = IF entering THEN close ELSE entry_price
        /\ IF entering
           THEN \E ind \in Indicators :
                  LET adx_value == ind[1]
                      atr_value == ind[2]
                      size == SoftPositionSize(adx_value, atr_value, close, settings)
                      fee_in == Fee(net2, size)
                      net3 == RSub(net2, fee_in)
                      risk3 == RSub(risk2, fee_in)
                  IN  /\ in_position' = TRUE
                      /\ entry_idx' = idx
                      /\ position_size' = size
                      /\ max_close' = close
                      /\ min_close' = close
                      /\ intraday_equity' = One
                      /\ equity_strategy_net' = net3
                      /\ equity_risk' = risk3
                      /\ fees_paid' = RAdd(fees2, fee_in)
                      /\ equity_path' = <<One>>
                      /\ adx_entry' = adx_value
                      /\ atr_entry' = atr_value
                      /\ equity_rows' =
                           Append(equity_rows, EquityRow(idx, close, gross1, net3, risk3))
           ELSE /\ in_position' = in2
                /\ entry_idx' = IF exiting THEN -1 ELSE entry_idx
                /\ position_size' = IF exiting THEN Zero ELSE position_size
                /\ max_close' = IF exiting THEN 0 ELSE max1
                /\ min_close' = IF exiting THEN 0 ELSE min1
                /\ intraday_equity' = IF exiting THEN One ELSE intra1
                /\ equity_strategy_net' = net2
                /\ equity_risk' = risk2
                /\ fees_paid' = fees2
                /\ equity_path' = IF exiting THEN <<>> ELSE path1
                /\ adx_entry' = IF exiting THEN None ELSE adx_entry
                /\ atr_entry' = IF exiting THEN None ELSE atr_entry
                /\ equity_rows' =
                     Append(equity_rows, EquityRow(idx, close, gross1, net2, risk2))

Bar ==
    /\ pc \in {"call", "loop"}
    /\ Len(closes) < MaxBars
    /\ pc' = "loop"
    /\ \E close \in Prices, event \in Events : BarStep(close, event)
    /\ UNCHANGED << settings, payload, segments, turning_points, otherVars >>
    /\ UNCHANGED runVars

\* The counting part of the risk metrics summary (trade_engine.py:346-347,
\* 378-388).  cagr, sharpe and the ulcer index take roots and max_drawdown
\* divides published equity values by one another; none of them is read by
\* the engine again and they are left out.
RiskSummary(rows, trades_) ==
    LET equity_values == [i \in 1..Len(rows) |-> R(rows[i].strategy_net, Pow10(4))]
        total_return_net == IF Len(rows) > 0
                            THEN RSub(RDiv(equity_values[Len(rows)], equity_values[1]), One)
                            ELSE Zero
        wins == Cardinality({i \in 1..Len(trades_) : trades_[i].net_return > 0})
    IN  [ total_return_net |-> Round(total_return_net, 4),
          win_rate |-> IF Len(trades_) > 0 THEN Round(R(wins, Len(trades_)), 4) ELSE 0,
          num_trades |-> Len(trades_) ]

\* The end of the price series: the forced exit of a position still open and
\* the payload (trade_engine.py:307-460).
EndOfDataStep ==
    /\ pc = "loop"
    /\ pc' = "done"
    /\ LET forced == MissingExit
           fee_out == Fee(equity_strategy_net, position_size)
           trades1 == IF forced THEN Append(trades, ForcedExitTrade) ELSE trades
           net1 == IF forced THEN RSub(equity_strategy_net, fee_out) ELSE equity_strategy_net
           risk1 == IF forced THEN RSub(equity_risk, fee_out) ELSE equity_risk
           fees1 == IF forced THEN RAdd(fees_paid, fee_out) ELSE fees_paid
           diag1 == IF forced THEN [diagnostics EXCEPT !.blocked.missing_exit = @ + 1]
                    ELSE diagnostics
       IN  /\ trades' = trades1
           /\ equity_strategy_net' = net1
           /\ equity_risk' = risk1
           /\ fees_paid' = fees1
           /\ diagnostics' = diag1
           /\ payload' =
                [ trade_log |-> [trades |-> trades1],
                  equity_curves |-> [rows |-> equity_rows],
                  risk_metrics |-> [summary |-> RiskSummary(equity_rows, trades1)],
                  fees |-> [ total_paid |-> Round(fees1, 6),
                             cost_bps |-> settings.cost_bps,
                             slippage_bps |-> settings.slippage_bps,
                             round_trip_bps |-> 2 * (settings.cost_bps + settings.slippage_bps) ],
                  diagnostics |-> diag1 ]
    /\ UNCHANGED << settings, closes, cycle_events, equity_strategy_gross,
                    equity_rows, in_position, entry_idx, entry_price,
                    position_size, cooldown_until, max_close, min_close,
                    equity_path, intraday_equity, adx_entry, atr_entry,
                    segments, turning_points, otherVars >>

EndOfData == EndOfDataStep /\ UNCHANGED runVars

Next == ReturnEmpty \/ Bar \/ EndOfData

Spec == Init /\ [][Next]_vars

(***************************************************************************)
(* detect_cycles (engine/events/cycles.py).  The function is pure: a run   *)
(* of CycleSpec starts with the close series of the price rows chosen and  *)
(* applies the function to it.  The date of a row is its index.            *)
(***************************************************************************)
\* Closes of the price rows handed to detect_cycles.
CycleCloses == {1, 2, 3}

RECURSIVE SeqsUpTo(_, _)
SeqsUpTo(S, n) ==
    IF n = 0 THEN {<<>>}
    ELSE LET shorter == SeqsUpTo(S, n - 1)
         IN  shorter \cup {Append(q, x) : q \in {r \in shorter : Len(r) = n - 1}, x \in S}

\* deltas = [closes[i] - closes[i - 1] for i in range(1, len(closes))]
\* (cycles.py:136); Python deltas[k] is Deltas(cl)[k + 1].
Deltas(cl) == [i \in 1..(Len(cl) - 1) |-> cl[i + 1] - cl[i]]

\* The first non-zero delta (cycles.py:139-143); 0 models None, the value
\* prev_delta keeps when every delta is zero.
RECURSIVE FirstNonZero(_, _)
FirstNonZero(deltas, i) ==
    IF i > Len(deltas) THEN 0
    ELSE IF deltas[i] # 0 THEN deltas[i]
    ELSE FirstNonZero(deltas, i + 1)

TurningPoint(index, kind) == [index |-> index, kind |-> kind]

\* Variant of TurningPointsLoop: a zero delta is stored as the previous slope.
RECURSIVE TurningPointsLoopFlatResets(_, _, _, _)
TurningPointsLoopFlatResets(deltas, idx, prev_delta, tps) ==
    IF idx + 1 > Len(deltas) THEN tps
    ELSE LET delta == deltas[idx + 1]
         IN  IF prev_delta > 0 /\ delta < 0
             THEN TurningPointsLoopFlatResets(deltas, idx + 1, delta,
                                              Append(tps, TurningPoint(idx, "peak")))
             ELSE IF prev_delta < 0 /\ delta > 0
             THEN TurningPointsLoopFlatResets(deltas, idx + 1, delta,
                                              Append(tps, TurningPoint(idx, "trough")))
             ELSE TurningPointsLoopFlatResets(deltas, idx + 1, delta, tps)

\* `for idx, delta in enumerate(deltas[1:], start=1)` from idx on
\* (cycles.py:148-157).
RECURSIVE TurningPointsLoop(_, _, _, _)
TurningPointsLoop(deltas, idx, prev_delta, tps) ==
    IF idx + 1 > Len(deltas) THEN tps
    ELSE LET delta == deltas[idx + 1]
         IN  IF delta = 0
             THEN TurningPointsLoop(deltas, idx + 1, prev_delta, tps)
             ELSE IF prev_delta > 0 /\ delta < 0
             THEN TurningPointsLoop(deltas, idx + 1, delta,
                                    Append(tps, TurningPoint(idx, "peak")))
             ELSE IF prev_delta < 0 /\ delta > 0
             THEN TurningPointsLoop(deltas, idx + 1, delta,
                                    Append(tps, TurningPoint(idx, "trough")))
             ELSE TurningPointsLoop(deltas, idx + 1, delta, tps)

\* _find_turning_points (cycles.py:132-159)
FindTurningPoints(cl) ==
    LET deltas == Deltas(cl)
        prev_delta == FirstNonZero(deltas, 1)
    IN  IF prev_delta = 0 THEN <<>>
        ELSE TurningPointsLoop(deltas, 1, prev_delta, <<>>)

\* Variant of Direction: the kinds are read the other way round.
DirectionSwapped(prev_kind, curr_kind) ==
    IF prev_kind = "peak" /\ curr_kind = "trough" THEN "upswing" ELSE "downswing"

\* direction of a segment (cycles.py:58)
Direction(prev_kind, curr_kind) ==
    IF prev_kind = "trough" /\ curr_kind = "peak" THEN "upswing" ELSE "downswing"

\* The CycleSegment built from two turning points of different kind
\* (cycles.py:55-72).
CycleSegment(cl, prev, curr) ==
    LET start_idx == prev.index
        end_idx == curr.index
        start_close == cl[start_idx + 1]
        end_close == cl[end_idx + 1]
    IN  [ start_idx |-> start_idx,
          end_idx |-> end_idx,
          start_date |-> start_idx,
          end_date |-> end_idx,
          direction |-> Direction(prev.kind, curr.kind),
          length |-> end_idx - start_idx,
          amplitude |-> R(end_close - start_close, start_close),
          start_close |-> start_close,
          end_close |-> end_close ]

\* `for prev, curr in zip(turning_points, turning_points[1:])` from the k-th
\* pair on (cycles.py:50-72).
RECURSIVE SegmentsLoop(_, _, _, _)
SegmentsLoop(cl, tps, k, segs) ==
    IF k + 1 > Len(tps) THEN segs
    ELSE IF tps[k].kind = tps[k + 1].kind
    THEN SegmentsLoop(cl, tps, k + 1, segs)
    ELSE SegmentsLoop(cl, tps, k + 1, Append(segs, CycleSegment(cl, tps[k], tps[k + 1])))

\* detect_cycles (cycles.py:38-74): <<segments, turning_points>>.
DetectCycles(cl) ==
    IF Len(cl) < 3 THEN << <<>>, <<>> >>
    ELSE LET tps == FindTurningPoints(cl)
         IN  << SegmentsLoop(cl, tps, 1, <<>>), tps >>

\* The state at a call of detect_cycles: the price rows are chosen, nothing
\* is returned yet; the trade engine is not running.
CycleInit ==
    /\ pc = "detect"
    /\ closes \in SeqsUpTo(CycleCloses, MaxCloses)
    /\ settings = DefaultSettings
    /\ Locals
    /\ CycleIdle
    /\ OthersIdle
    /\ RunIdle

engineVars ==
    << settings, cycle_events, trades, diagnostics, equity_strategy_gross,
       equity_strategy_net, equity_risk, equity_rows, in_position, entry_idx,
       entry_price, position_size, cooldown_until, max_close, min_close,
       equity_path, intraday_equity, fees_paid, adx_entry, atr_entry, payload >>

\* `if len(prices) < 3: return [], []` (cycles.py:41-42)
ReturnNoCycles ==
    /\ pc = "detect"
    /\ Len(closes) < 3
    /\ pc' = "returned"
    /\ segments' = DetectCycles(closes)[1]
    /\ turning_points' = DetectCycles(closes)[2]
    /\ UNCHANGED << closes, engineVars, otherVars >>
    /\ UNCHANGED runVars

\* The call on three rows or more (cycles.py:44-74).
ReturnCycles ==
    /\ pc = "detect"
    /\ Len(closes) >= 3
    /\ pc' = "returned"
    /\ segments' = DetectCycles(closes)[1]
    /\ turning_points' = DetectCycles(closes)[2]
    /\ UNCHANGED << closes, engineVars, otherVars >>
    /\ UNCHANGED runVars

CycleNext == ReturnNoCycles \/ ReturnCycles

CycleSpec == CycleInit /\ [][CycleNext]_vars

(***************************************************************************)
(* detect_events (engine/events/detector.py).  The function is pure: a run *)
(* of EventSpec starts with the close series chosen and applies the        *)
(* function to it.  pstdev is a square root: a volatility is kept as the   *)
(* record [sq |-> variance] of its square, and a comparison against        *)
(* baseline +/- k * volatility is decided on the squares.                  *)
(***************************************************************************)
\* closes[-5:] and closes[-20:] (detector.py:25-29)
Window5 == 5
Window20 == 20

\* Closes of the price rows handed to detect_events.
EventCloses == {1, 2, 3}

\* Lengths of the constant stretch in the middle of a history; the long ones
\* push the first bar to the edge of the 20-bar window.
RunLengths == {0, 3, 18, 19}

Repeat(v, n) == [i \in 1..n |-> v]

\* The histories: at most one first bar, a constant stretch, a free tail.
Histories ==
    { first \o Repeat(v, n) \o tail :
        first \in SeqsUpTo(EventCloses, 1), v \in EventCloses,
        n \in RunLengths, tail \in SeqsUpTo(EventCloses, MaxTail) }

\* s[-n:]
LastN(s, n) == SubSeq(s, IF Len(s) > n THEN Len(s) - n + 1 ELSE 1, Len(s))

\* s[:-1]
ButLast(s) == SubSeq(s, 1, Len(s) - 1)

RECURSIVE SeqMin(_)
SeqMin(s) ==
    IF Len(s) = 1 THEN s[1]
    ELSE LET m == SeqMin(Tail(s)) IN IF s[1] <= m THEN s[1] ELSE m

RECURSIVE SeqMax(_)
SeqMax(s) ==
    IF Len(s) = 1 THEN s[1]
    ELSE LET m == SeqMax(Tail(s)) IN IF s[1] >= m THEN s[1] ELSE m

RECURSIVE SeqSum(_)
SeqSum(s) == IF s = <<>> THEN 0 ELSE s[1] + SeqSum(Tail(s))

RECURSIVE SeqSumSq(_)
SeqSumSq(s) == IF s = <<>> THEN 0 ELSE s[1] * s[1] + SeqSumSq(Tail(s))

\* statistics.mean
Mean(s) == R(SeqSum(s), Len(s))

\* statistics.pstdev, as its square: (n * sum x^2 - (sum x)^2) / n^2
Pstdev(s) ==
    [sq |-> R(Len(s) * SeqSumSq(s) - SeqSum(s) * SeqSum(s), Len(s) * Len(s))]

\* 0.0 as a volatility
NoVolatility == [sq |-> Zero]

\* x <= b - k * vol
LeqMinus(x, b, k, vol) ==
    /\ b - x >= 0
    /\ RLeq(RMul(RMul(k, k), vol.sq), R((b - x) * (b - x), 1))

\* x < b - k * vol
LessMinus(x, b, k, vol) ==
    /\ b - x > 0
    /\ RLess(RMul(RMul(k, k), vol.sq), R((b - x) * (b - x), 1))

\* x > h + k * vol
GreaterPlus(x, h, k, vol) ==
    /\ x - h > 0
    /\ RLess(RMul(RMul(k, k), vol.sq), R((x - h) * (x - h), 1))

\* detector.py:28-29
Trailing5(cl) == LastN(ButLast(cl), Window5)
Trailing20(cl) == LastN(ButLast(cl), Window20)

\* detector.py:31-35
BaselineLow5(cl) ==
    IF Trailing5(cl) # <<>> THEN SeqMin(Trailing5(cl)) ELSE SeqMin(LastN(cl, Window5))

BaselineHigh20(cl) ==
    IF Trailing20(cl) # <<>> THEN SeqMax(Trailing20(cl)) ELSE SeqMax(LastN(cl, Window20))

Volatility5(cl) ==
    IF Len(Trailing5(cl)) > 1 THEN Pstdev(Trailing5(cl)) ELSE NoVolatility

Volatility20(cl) ==
    IF Len(Trailing20(cl)) > 1 THEN Pstdev(Trailing20(cl)) ELSE NoVolatility

\* Event (detector.py:8-12)
Event(name, confidence, rationale) ==
    [name |-> name, confidence |-> confidence, rationale |-> rationale]

Shakeout ==
    Event("SHAKEOUT", R(62, 100),
          "Close undercut the 5-day low by more than a 0.5σ volatility filter, a common shakeout signature.")

DistributionRisk ==
    Event("DISTRIBUTION_RISK", R(55, 100),
          "Close slipped more than 1σ below the 5-day low, reinforcing distribution risk.")

Reclaim ==
    Event("RECLAIM", R(68, 100),
          "Close cleared the 20-day high by over 0.5σ of rolling volatility, confirming reclaim momentum.")

RangeAccumulation ==
    Event("RANGE_ACCUMULATION", R(1, 2),
          "Staying above the 20-day mean while basing near highs.")

Neutral ==
    Event("NEUTRAL", R(4, 10), "No clear pattern detected in the latest window.")

\* Variant of WithFallback: NEUTRAL is appended whatever the list holds.
WithFallbackAlways(evs) == Append(evs, Neutral)

\* `if not events: events.append(NEUTRAL)` (detector.py:75-82)
WithFallback(evs) == IF evs = <<>> THEN Append(evs, Neutral) ELSE evs

\* detect_events on a non-empty close series (detector.py:22-84)
DetectEvents(cl) ==
    LET latest_close == cl[Len(cl)]
        window5 == LastN(cl, Window5)
        window20 == LastN(cl, Window20)
        low5 == BaselineLow5(cl)
        high20 == BaselineHigh20(cl)
        vol5 == Volatility5(cl)
        vol20 == Volatility20(cl)
        e1 == IF LeqMinus(latest_close, low5, R(1, 2), vol5)
              THEN <<Shakeout>> ELSE <<>>
        e2 == IF LessMinus(latest_close, low5, One, vol5)
              THEN Append(e1, DistributionRisk) ELSE e1
        e3 == IF GreaterPlus(latest_close, high20, R(1, 2), vol20)
              THEN Append(e2, Reclaim) ELSE e2
        e4 == IF RLess(Mean(window20), R(latest_close, 1)) /\ latest_close > SeqMin(window5)
              THEN Append(e3, RangeAccumulation) ELSE e3
    IN  WithFallback(e4)

EngineIdle == settings = DefaultSettings /\ Locals

EventInit ==
    /\ pc = "detect_events"
    /\ closes \in Histories
    /\ EngineIdle
    /\ CycleIdle
    /\ EventIdle
    /\ DecisionIdle
    /\ WalkIdle
    /\ RunIdle

\* `latest_close = closes[-1]` on an empty series: IndexError (detector.py:24)
RaiseOnNoPrices ==
    /\ pc = "detect_events"
    /\ closes = <<>>
    /\ pc' = "raised"
    /\ UNCHANGED << closes, engineVars, cycleVars, eventVars, decisionVars, walkVars >>
    /\ UNCHANGED runVars

\* The call on a non-empty series (detector.py:22-84)
ReturnEvents ==
    /\ pc = "detect_events"
    /\ closes # <<>>
    /\ pc' = "events_returned"
    /\ baseline_low5' = BaselineLow5(closes)
    /\ baseline_high20' = BaselineHigh20(closes)
    /\ volatility5' = Volatility5(closes)
    /\ volatility20' = Volatility20(closes)
    /\ events' = DetectEvents(closes)
    /\ UNCHANGED << closes, engineVars, cycleVars, decisionVars, walkVars >>
    /\ UNCHANGED runVars

EventNext == RaiseOnNoPrices \/ ReturnEvents

EventSpec == EventInit /\ [][EventNext]_vars

(***************************************************************************)
(* select_action (engine/decision/engine.py).  A text is the sequence of   *)
(* its fragments, the empty string the empty sequence; " ".join of the     *)
(* non-empty notes is the concatenation of their fragments.  A fragment    *)
(* built by an f-string carries the interpolated numbers as its args, an   *)
(* interpolated qualifier is written out.  The timestamp of the returned   *)
(* mapping is left out.                                                    *)
(***************************************************************************)
Fragment(text, args) == [text |-> text, args |-> args]

Text(string) == IF string = "" THEN <<>> ELSE << Fragment(string, <<>>) >>

\* " ".join(note for note in notes if note)
RECURSIVE Join(_)
Join(notes) == IF notes = <<>> THEN <<>> ELSE notes[1] \o Join(Tail(notes))

\* round(x, 4) and round(x, 2) as numbers
Round4(x) == R(Round(x, 4), Pow10(4))
Round2(x) == R(Round(x, 2), Pow10(2))

\* ACTIONS (engine.py:10)
Actions == {"BUY", "ADD", "HOLD", "REDUCE", "WAIT"}

\* ACTION_BY_EVENT.get(name, "WAIT") (engine.py:12-18, 28)
ActionByEvent(name) ==
    CASE name = "SHAKEOUT" -> "BUY"
      [] name = "RECLAIM" -> "ADD"
      [] name = "RANGE_ACCUMULATION" -> "HOLD"
      [] name = "DISTRIBUTION_RISK" -> "REDUCE"
      [] name = "NEUTRAL" -> "WAIT"
      [] OTHER -> "WAIT"

\* sorted(events, key=lambda e: e.confidence, reverse=True): stable, so events
\* of equal confidence keep their input order (engine.py:26)
RECURSIVE InsertByConfidence(_, _)
InsertByConfidence(sorted, e) ==
    IF sorted = <<>> THEN << e >>
    ELSE IF RLess(sorted[1].confidence, e.confidence) THEN << e >> \o sorted
    ELSE << sorted[1] >> \o InsertByConfidence(Tail(sorted), e)

RECURSIVE SortFrom(_, _, _)
SortFrom(evs, i, sorted) ==
    IF i > Len(evs) THEN sorted
    ELSE SortFrom(evs, i + 1, InsertByConfidence(sorted, evs[i]))

\* Variant of Prioritized: the events are sorted by rising confidence.
PrioritizedAscending(evs) ==
    LET sorted == SortFrom(evs, 1, <<>>)
    IN  [i \in 1..Len(sorted) |-> sorted[Len(sorted) + 1 - i]]

\* Variant of Prioritized: the events are left in input order.
PrioritizedInputOrder(evs) == evs

Prioritized(evs) == SortFrom(evs, 1, <<>>)

\* Event.to_dict (detector.py:14-19)
ToDict(e) ==
    [name |-> e.name, confidence |-> Round2(e.confidence), rationale |-> e.rationale]

\* A cycle segment as select_action reads it: direction, length, amplitude.
Segment(direction, length, amplitude) ==
    [direction |-> direction, length |-> length, amplitude |-> amplitude]

\* filter_cycles(cycles, min_length): the segments of length >= min_length, in
\* order.
FilterCycles(cs, min_length) == SelectSeq(cs, LAMBDA c : c.length >= min_length)

RECURSIVE RSum(_)
RSum(values) == IF values = <<>> THEN Zero ELSE RAdd(values[1], RSum(Tail(values)))

\* _avg (engine.py:69-70)
Avg(values, fallback) ==
    IF values # <<>> THEN Round4(RDiv(RSum(values), R(Len(values), 1))) ELSE fallback

Lengths(cs) == [i \in 1..Len(cs) |-> R(cs[i].length, 1)]
Amplitudes(cs) == [i \in 1..Len(cs) |-> cs[i].amplitude]
Magnitudes(cs) == [i \in 1..Len(cs) |-> RAbs(cs[i].amplitude)]

\* cycle_context.get(key): "None" when the key is missing
Get(ctx, key) == IF key \in DOMAIN ctx THEN ctx[key] ELSE "None"

\* Variant of AmplitudeFlag: no amplitude is flagged low.
AmplitudeFlagNeverLow(magnitude, low_cutoff, high_cutoff) ==
    IF RLess(high_cutoff, magnitude) THEN "high" ELSE "normal"

\* amplitude_flag (engine.py:81-85)
AmplitudeFlag(magnitude, low_cutoff, high_cutoff) ==
    IF RLess(magnitude, low_cutoff) THEN "low"
    ELSE IF RLess(high_cutoff, magnitude) THEN "high"
    ELSE "normal"

\* _analyze_cycle_context (engine.py:49-144)
AnalyzeCycleContext(cs, raw_cycle_count) ==
    IF cs = <<>>
    THEN [ bias |-> "neutral",
           note |-> Text("No completed cycles detected after filtering; keep event-driven stance."),
           filtered_cycle_count |-> 0,
           raw_cycle_count |-> raw_cycle_count,
           min_cycle_length |-> 2 ]
    ELSE
    LET latest == cs[Len(cs)]
        up_cycles == SelectSeq(cs, LAMBDA c : c.direction = "upswing")
        down_cycles == SelectSeq(cs, LAMBDA c : c.direction = "downswing")
        avg_up_length == Avg(Lengths(up_cycles), R(latest.length, 1))
        avg_up_amplitude == Avg(Amplitudes(up_cycles), latest.amplitude)
        avg_down_length == Avg(Lengths(down_cycles), R(latest.length, 1))
        avg_down_amplitude == Avg(Magnitudes(down_cycles), RAbs(latest.amplitude))
        avg_magnitude == Avg(Magnitudes(cs), RAbs(latest.amplitude))
        reference_magnitude == RMax(RMin(avg_magnitude, R(1, 100)), R(47, 10000))
        low_amplitude_cutoff ==
            Round4(RMax(R(2, 1000), RMul(reference_magnitude, R(6, 10))))
        high_amplitude_cutoff ==
            Round4(RMax(RMul(reference_magnitude, R(14, 10)), R(7, 1000)))
        amplitude_flag ==
            AmplitudeFlag(RAbs(latest.amplitude), low_amplitude_cutoff, high_amplitude_cutoff)
        matured_upswing ==
            /\ latest.direction = "upswing"
            /\ RLeq(RMul(avg_up_length, R(12, 10)), R(latest.length, 1))
            /\ RLeq(RMul(avg_up_amplitude, R(11, 10)), latest.amplitude)
        shallow_downswing ==
            /\ latest.direction = "downswing"
            /\ RLeq(R(latest.length, 1), RMax(R(2, 1), RMul(avg_down_length, R(8, 10))))
            /\ RLeq(RAbs(latest.amplitude),
                    RMax(RMul(avg_down_amplitude, R(75, 100)), R(1, 100)))
        bias == IF matured_upswing THEN "mature_upswing"
                ELSE IF shallow_downswing THEN "shallow_downswing"
                ELSE "neutral"
        posture ==
            IF matured_upswing
            THEN Text("Late-stage upswing with extended length/amplitude; favor taking risk off.")
            ELSE IF shallow_downswing
            THEN Text("Downswing is young and shallow; avoid reactionary reductions.")
            ELSE Text("Cycle posture is neutral; follow event guidance.")
        swing ==
            IF amplitude_flag = "low"
            THEN Text("Latest cycle amplitude is muted; stand down until volatility expands beyond the low cutoff.")
            ELSE IF amplitude_flag = "high"
            THEN Text("Latest cycle amplitude is elevated versus average; conviction trades can be sized up.")
            ELSE <<>>
    IN  [ bias |-> bias,
          latest_direction |-> latest.direction,
          latest_length |-> latest.length,
          latest_amplitude |-> Round4(latest.amplitude),
          avg_up_length |-> avg_up_length,
          avg_up_amplitude |-> avg_up_amplitude,
          avg_down_length |-> avg_down_length,
          avg_down_amplitude |-> avg_down_amplitude,
          avg_magnitude |-> avg_magnitude,
          reference_magnitude |-> reference_magnitude,
          low_amplitude_cutoff |-> low_amplitude_cutoff,
          high_amplitude_cutoff |-> high_amplitude_cutoff,
          amplitude_flag |-> amplitude_flag,
          filtered_cycle_count |-> Len(cs),
          raw_cycle_count |-> raw_cycle_count,
          min_cycle_length |-> 2,
          note |-> Join(<< posture, swing >>) ]

\* buy_rsi_threshold (engine.py:167-181)
BuyRsiThreshold(regime) ==
    IF regime = "uptrend" THEN 45
    ELSE IF regime = "downtrend" THEN 28
    ELSE IF regime \in {"range", "neutral"} THEN 32
    ELSE 30

\* Variant of BuyConfirmed: one confirmation is enough in every regime.
BuyConfirmedByEither(regime, oversold, macd_improving) == oversold \/ macd_improving

\* The confirmation of a BUY after a SHAKEOUT (engine.py:185-194)
BuyConfirmed(regime, oversold, macd_improving) ==
    IF regime = "downtrend" THEN oversold /\ macd_improving
    ELSE oversold \/ macd_improving

\* _apply_indicator_filters (engine.py:147-226): [action, rationale]
ApplyIndicatorFilters(action, primary, ctx) ==
    IF action \notin Actions
    THEN [ action |-> "WAIT",
           rationale |-> Text("Unrecognized base action; defaulting to WAIT.")
                           \o Text(primary.rationale) ]
    ELSE IF ctx = None
    THEN [ action |-> action,
           rationale |-> Text(primary.rationale)
                           \o Text("Technical filters unavailable; keeping event action.") ]
    ELSE
    LET rsi == ctx.latest_rsi
        macd == ctx.latest_macd
        macd_hist == ctx.latest_macd_hist
        macd_improving == ctx.macd_improving
        regime == ctx.regime
        buy_rsi_threshold == BuyRsiThreshold(regime)
        sell_rsi_threshold ==
            IF regime = "uptrend" THEN 75
            ELSE IF regime = "downtrend" THEN 60
            ELSE IF regime \in {"range", "neutral"} THEN 68
            ELSE 70
        regime_text ==
            IF regime = "uptrend"
            THEN Text("Regime: uptrend; loosening long triggers and delaying sells.")
            ELSE IF regime = "downtrend"
            THEN Text("Regime: downtrend; demanding stronger momentum to buy and quicker risk-off.")
            ELSE IF regime \in {"range", "neutral"}
            THEN Text("Regime: range/neutral; biasing toward mean-reversion gates.")
            ELSE <<>>
        notes1 == << Text(primary.rationale), Text(ctx.regime_note), regime_text >>
        \* lines 183-201
        buying == primary.name = "SHAKEOUT" /\ action = "BUY"
        oversold == rsi # None /\ RLess(rsi, R(buy_rsi_threshold, 1))
        buy_ok == BuyConfirmed(regime, oversold, macd_improving)
        buy_note ==
            IF regime = "downtrend"
            THEN IF buy_ok
                 THEN Text("BUY confirmed with RSI deeply sold and MACD firming inside downtrend.")
                 ELSE Text("BUY gated in downtrend until RSI is washed out and MACD momentum improves.")
            ELSE IF buy_ok
                 THEN IF oversold
                      THEN Text("BUY confirmed by RSI oversold filter.")
                      ELSE Text("BUY confirmed by MACD momentum improving filter.")
                 ELSE << Fragment("BUY gated until RSI < {buy_rsi_threshold} or MACD momentum improves to reduce false triggers.",
                                  << R(buy_rsi_threshold, 1) >>) >>
        action2 == IF buying /\ ~buy_ok THEN "WAIT" ELSE action
        notes2 == IF buying THEN Append(notes1, buy_note) ELSE notes1
        \* lines 203-224
        selling == primary.name = "DISTRIBUTION_RISK" /\ action2 = "REDUCE"
        overbought == rsi # None /\ RLess(R(sell_rsi_threshold, 1), rsi)
        macd_negative == \/ (macd # None /\ RLess(macd, Zero))
                         \/ (macd_hist # None /\ RLess(macd_hist, Zero))
        sell_ok == IF regime = "uptrend" /\ ~macd_negative THEN overbought
                   ELSE overbought \/ macd_negative
        sell_note ==
            IF regime = "uptrend" /\ ~macd_negative
            THEN IF overbought
                 THEN Text("SELL/REDUCE confirmed by stretched RSI despite uptrend support.")
                 ELSE Text("Uptrend regime; deferring sell until RSI is extended or MACD turns negative.")
            ELSE IF sell_ok
                 THEN IF overbought
                      THEN Text("SELL/REDUCE confirmed by RSI overbought filter.")
                      ELSE Text("SELL/REDUCE confirmed by MACD negative bias filter.")
                 ELSE << Fragment("SELL/REDUCE deferred until RSI > {sell_rsi_threshold} or MACD turns negative to avoid whipsaws.",
                                  << R(sell_rsi_threshold, 1) >>) >>
        action3 == IF selling /\ ~sell_ok THEN "HOLD" ELSE action2
        notes3 == IF selling THEN Append(notes2, sell_note) ELSE notes2
    IN  [ action |-> action3, rationale |-> Join(notes3) ]

\* Variant of MatureOverride: an action of WAIT is left alone.
MatureOverrideKeepsWait(bias, action) ==
    bias = "mature_upswing" /\ action \in {"BUY", "ADD", "HOLD"}

\* `bias == "mature_upswing" and action in {...}` (engine.py:238)
MatureOverride(bias, action) ==
    bias = "mature_upswing" /\ action \in {"BUY", "ADD", "HOLD", "WAIT"}

\* `bias == "shallow_downswing" and action == "REDUCE"` (engine.py:243)
ShallowOverride(bias, action) == bias = "shallow_downswing" /\ action = "REDUCE"

\* Variant of HighAmplitudeUpgrade: HOLD is not upgraded.
HighAmplitudeUpgradeNoHold(amplitude_flag, latest_direction, action) ==
    /\ amplitude_flag = "high"
    /\ latest_direction = "upswing"
    /\ action \in {"BUY", "ADD"}

\* engine.py:262
HighAmplitudeUpgrade(amplitude_flag, latest_direction, action) ==
    /\ amplitude_flag = "high"
    /\ latest_direction = "upswing"
    /\ action \in {"BUY", "ADD", "HOLD"}

\* _apply_cycle_bias (engine.py:229-268): [action, rationale]
ApplyCycleBias(action, rationale, cycle_context) ==
    IF action \notin Actions
    THEN [ action |-> "WAIT",
           rationale |-> Text("Unrecognized base action; defaulting to WAIT.") \o rationale ]
    ELSE
    LET bias == Get(cycle_context, "bias")
        amplitude_flag == Get(cycle_context, "amplitude_flag")
        mature == MatureOverride(bias, action)
        shallow == ~mature /\ ShallowOverride(bias, action)
        action1 == IF mature THEN "REDUCE" ELSE IF shallow THEN "HOLD" ELSE action
        note1 ==
            IF mature
            THEN Text("Cycle maturity suggests tightening risk, elevating reduce/sell threshold.")
            ELSE IF shallow
            THEN Text("Early shallow downswing detected; pausing reductions to confirm trend.")
            ELSE cycle_context.note
        low == amplitude_flag = "low"
        high == /\ ~low
                /\ HighAmplitudeUpgrade(amplitude_flag,
                                        Get(cycle_context, "latest_direction"), action1)
        action2 == IF low THEN "WAIT" ELSE IF high THEN "ADD" ELSE action1
        note2 ==
            IF low
            THEN << Fragment("Cycle amplitude ({latest_amplitude}) is below the trade filter ({low_cutoff}); deferring trades until swings expand.",
                             << cycle_context.latest_amplitude,
                                cycle_context.low_amplitude_cutoff >>) >>
            ELSE IF high
            THEN << Fragment("High-amplitude upswing ({latest_amplitude}) above {high_cutoff}; leaning into long exposure with a larger add.",
                             << cycle_context.latest_amplitude,
                                cycle_context.high_amplitude_cutoff >>) >>
            ELSE <<>>
    IN  [ action |-> action2, rationale |-> Join(<< rationale, note1, note2 >>) ]

\* select_action on a non-empty events list (engine.py:21-46): the mapping
\* returned, with the [action, rationale] of the indicator stage beside it.
SelectAction(evs, cs, ctx) ==
    LET prioritized == Prioritized(evs)
        primary == prioritized[1]
        base_action == ActionByEvent(primary.name)
        filtered_cycles == FilterCycles(cs, 2)
        cycle_context == AnalyzeCycleContext(filtered_cycles, Len(cs))
        filtered == ApplyIndicatorFilters(base_action, primary, ctx)
        biased == ApplyCycleBias(filtered.action, filtered.rationale, cycle_context)
    IN  [ filtered |-> filtered,
          result |->
            [ action |-> biased.action,
              market_state |-> primary.name,
              confidence |-> Round2(primary.confidence),
              rationale |-> biased.rationale,
              cycle_context |-> cycle_context,
              indicator_context |-> IF ctx = None THEN <<>> ELSE ctx,
              active_events |-> [i \in 1..Len(prioritized) |-> ToDict(prioritized[i])] ] ]

\* The events lists select_action is called with: each event alone, lists as
\* detect_events builds them, an event name outside the map, lists out of
\* order and a tie in confidence.
CustomEvent == Event("BREAKOUT", R(7, 10), "Custom event.")

EventLists ==
    { << Shakeout >>, << DistributionRisk >>, << Reclaim >>,
      << RangeAccumulation >>, << Neutral >>, << CustomEvent >>,
      << Shakeout, DistributionRisk >>, << RangeAccumulation, Reclaim >>,
      << Neutral, CustomEvent, Reclaim >>,
      << Event("RECLAIM", R(62, 100), "Reclaim at the confidence of a shakeout."), Shakeout >> }

\* The cycle segments: one below the minimum length, upswings of small,
\* muted-but-extended and large amplitude, a shallow and a deep downswing.
CyclePool ==
    { Segment("upswing", 1, R(2, 1000)),
      Segment("upswing", 2, R(4, 10000)),
      Segment("upswing", 4, R(2, 1000)),
      Segment("upswing", 4, R(5, 100)),
      Segment("downswing", 2, R(-5, 1000)),
      Segment("downswing", 5, R(-5, 100)) }

\* An indicator context (build_indicator_context, engine.py:321-331), the
\* ADX readings left out.
IndicatorContext(rsi, macd, hist, improving, regime, note) ==
    [ latest_rsi |-> rsi, latest_macd |-> macd, latest_macd_hist |-> hist,
      macd_improving |-> improving, regime |-> regime, regime_note |-> note ]

IndicatorContexts ==
    { None,
      IndicatorContext(R(25, 1), R(1, 1), R(1, 1), FALSE, "unknown",
                       "ADX regime unavailable; falling back to default filters."),
      IndicatorContext(R(50, 1), R(1, 1), R(1, 1), FALSE, "downtrend",
                       "ADX shows strong downside trend bias; tighten long gates and accelerate risk-off."),
      IndicatorContext(R(80, 1), R(-1, 1), R(-1, 1), TRUE, "uptrend",
                       "ADX shows strong upside trend bias; loosen long confirmations."),
      IndicatorContext(R(50, 1), R(1, 1), R(1, 1), TRUE, "uptrend",
                       "ADX shows strong upside trend bias; loosen long confirmations."),
      IndicatorContext(None, None, None, FALSE, "range", "") }

DecisionInit ==
    /\ pc = "select_action"
    /\ events \in EventLists \cup {<<>>}
    /\ cycles \in SeqsUpTo(CyclePool, MaxCycles)
    /\ indicator_context \in IndicatorContexts
    /\ filter_action = ""
    /\ filter_rationale = <<>>
    /\ decision = <<>>
    /\ closes = <<>>
    /\ EngineIdle
    /\ CycleIdle
    /\ baseline_low5 = 0
    /\ baseline_high20 = 0
    /\ volatility5 = 0
    /\ volatility20 = 0
    /\ WalkIdle
    /\ RunIdle

\* `primary = prioritized[0]` on an empty list: IndexError (engine.py:27)
RaiseOnNoEvents ==
    /\ pc = "select_action"
    /\ events = <<>>
    /\ pc' = "raised"
    /\ UNCHANGED << closes, engineVars, cycleVars, eventVars, decisionVars, walkVars >>
    /\ UNCHANGED runVars

\* The call on a non-empty list (engine.py:21-46)
ReturnDecision ==
    /\ pc = "select_action"
    /\ events # <<>>
    /\ pc' = "decided"
    /\ LET out == SelectAction(events, cycles, indicator_context)
       IN  /\ filter_action' = out.filtered.action
           /\ filter_rationale' = out.filtered.rationale
           /\ decision' = out.result
    /\ UNCHANGED << closes, engineVars, cycleVars, eventVars, cycles, indicator_context,
                    walkVars >>
    /\ UNCHANGED runVars

DecisionNext == RaiseOnNoEvents \/ ReturnDecision

DecisionSpec == DecisionInit /\ [][DecisionNext]_vars

(***************************************************************************)
(* select_action with SHAKEOUT as the primary event, over the regimes and  *)
(* the RSI readings around the buy thresholds (engine.py:147-201).         *)
(***************************************************************************)
Regimes == {"uptrend", "downtrend", "range", "neutral", "unknown"}

\* regime_note of a regime (engine.py:291-316)
RegimeNote(regime) ==
    CASE regime = "uptrend" ->
           "ADX shows strong upside trend bias; loosen long confirmations."
      [] regime = "downtrend" ->
           "ADX shows strong downside trend bias; tighten long gates and accelerate risk-off."
      [] regime = "range" ->
           "ADX below trend threshold; prioritize mean-reversion style filters."
      [] regime = "neutral" ->
           "ADX available but inconclusive; use baseline confirmations."
      [] OTHER -> "ADX regime unavailable; falling back to default filters."

\* latest_rsi: missing, or a reading below, at or above one of the thresholds
RsiReadings ==
    {None} \cup {R(v, 1) : v \in {27, 28, 29, 30, 31, 32, 44, 45}} \cup {R(559, 20)}

ShakeoutContexts ==
    {None} \cup
    { IndicatorContext(rsi, R(1, 1), R(1, 1), improving, regime, RegimeNote(regime)) :
        rsi \in RsiReadings, improving \in BOOLEAN, regime \in Regimes }

ShakeoutInit ==
    /\ pc = "select_action"
    /\ events \in { <<>>, << Shakeout >>, << DistributionRisk, Shakeout >> }
    /\ cycles = <<>>
    /\ indicator_context \in ShakeoutContexts
    /\ filter_action = ""
    /\ filter_rationale = <<>>
    /\ decision = <<>>
    /\ closes = <<>>
    /\ EngineIdle
    /\ CycleIdle
    /\ baseline_low5 = 0
    /\ baseline_high20 = 0
    /\ volatility5 = 0
    /\ volatility20 = 0
    /\ WalkIdle
    /\ RunIdle

ShakeoutSpec == ShakeoutInit /\ [][DecisionNext]_vars

(***************************************************************************)
(* select_action on the events detect_events returns for the same closes,  *)
(* as run_pipeline calls the two (main.py:98, 149-152).  The cycles and    *)
(* the indicator context are arguments of select_action.                   *)
(***************************************************************************)
\* The longest free tail of a history here.
MaxLatest == 2

LatestHistories ==
    { first \o Repeat(v, n) \o tail :
        first \in SeqsUpTo(EventCloses, 1), v \in EventCloses,
        n \in RunLengths, tail \in SeqsUpTo(EventCloses, MaxLatest) }

\* Cycles lists: none, a mature upswing, a shallow downswing and a
\* high-amplitude upswing.
LatestCycles ==
    { <<>>,
      << Segment("upswing", 2, R(4, 10000)), Segment("upswing", 4, R(5, 100)) >>,
      << Segment("downswing", 2, R(-5, 1000)) >>,
      << Segment("upswing", 4, R(5, 100)) >> }

SignalInit ==
    /\ pc = "detect_events"
    /\ closes \in LatestHistories
    /\ cycles \in LatestCycles
    /\ indicator_context \in IndicatorContexts
    /\ filter_action = ""
    /\ filter_rationale = <<>>
    /\ decision = <<>>
    /\ EngineIdle
    /\ CycleIdle
    /\ EventIdle
    /\ WalkIdle
    /\ RunIdle

\* select_action on the detected events (main.py:150-152, engine.py:21-46)
ReturnSignal ==
    /\ pc = "events_returned"
    /\ pc' = "decided"
    /\ LET out == SelectAction(events, cycles, indicator_context)
       IN  /\ filter_action' = out.filtered.action
           /\ filter_rationale' = out.filtered.rationale
           /\ decision' = out.result
    /\ UNCHANGED << closes, engineVars, cycleVars, eventVars, cycles, indicator_context,
                    walkVars, runVars >>

SignalNext == RaiseOnNoPrices \/ ReturnEvents \/ ReturnSignal

SignalSpec == SignalInit /\ [][SignalNext]_vars

(***************************************************************************)
(* walk_forward_validate (walkforward.py:56-110).  The series is           *)
(* list(range(1, total + 1)), as in test_walkforward.py; dates is None.    *)
(* train_size and test_size stay below 12, so every slice is summarised by *)
(* the short-history branch of summarize_returns.                          *)
(***************************************************************************)
Ascending(n) == [i \in 1..n |-> i]

\* closes[start : end + 1] for 0-based indices within the series
Slice(cs, start, end) == SubSeq(cs, start + 1, end + 1)

\* summarize_returns on fewer than 12 closes (performance.py:80-82)
SummarizeReturns(cs) ==
    [ hit_rate |-> R(1, 2), avg_return_5d |-> Zero, avg_return_10d |-> Zero,
      max_drawdown |-> Zero ]

RoundTo(x, k) == R(Round(x, k), Pow10(k))

\* PerformanceSummary.to_dict (performance.py:21-27)
SummaryToDict(p) ==
    [ hit_rate |-> RoundTo(p.hit_rate, 2),
      avg_return_5d |-> RoundTo(p.avg_return_5d, 3),
      avg_return_10d |-> RoundTo(p.avg_return_10d, 3),
      max_drawdown |-> RoundTo(p.max_drawdown, 3) ]

\* Variant of WalkForwardWindow: the test slice starts on the last train bar.
WalkForwardWindowSharedBar(a, train, test) ==
    [ train_start |-> a,
      train_end |-> a + train - 1,
      test_start |-> a + train - 1,
      test_end |-> a + train - 1 + test - 1 ]

\* The window anchored at a (walkforward.py:86-89)
WalkForwardWindow(a, train, test) ==
    [ train_start |-> a,
      train_end |-> a + train - 1,
      test_start |-> (a + train - 1) + 1,
      test_end |-> ((a + train - 1) + 1) + test - 1 ]

\* WalkForwardRun (walkforward.py:94-108)
WalkForwardRun(cs, w) ==
    [ window |-> w,
      train |-> SummarizeReturns(Slice(cs, w.train_start, w.train_end)),
      test |-> SummarizeReturns(Slice(cs, w.test_start, w.test_end)) ]

\* WalkForwardRun.to_dict without dates (walkforward.py:48-53)
RunToDict(run) ==
    [ window |-> run.window,
      train |-> SummaryToDict(run.train),
      test |-> SummaryToDict(run.test) ]

RMean(values) == RDiv(RSum(values), R(Len(values), 1))

RECURSIVE RMinOf(_)
RMinOf(values) ==
    IF Len(values) = 1 THEN values[1] ELSE RMin(values[1], RMinOf(Tail(values)))

\* _summarize_runs (walkforward.py:113-128); {} is <<>>
SummarizeRuns(rs) ==
    IF rs = <<>> THEN <<>>
    ELSE [ windows |-> Len(rs),
           avg_test_hit_rate |->
               RoundTo(RMean([i \in 1..Len(rs) |-> rs[i].test.hit_rate]), 3),
           avg_test_return_5d |->
               RoundTo(RMean([i \in 1..Len(rs) |-> rs[i].test.avg_return_5d]), 4),
           avg_test_return_10d |->
               RoundTo(RMean([i \in 1..Len(rs) |-> rs[i].test.avg_return_10d]), 4),
           worst_test_drawdown |->
               RoundTo(RMinOf([i \in 1..Len(rs) |-> rs[i].test.max_drawdown]), 4) ]

\* Variant of StepOr: a missing step advances one bar.
StepOrOne(s, test) == IF s = None \/ s[1] = 0 THEN 1 ELSE s[1]

\* `step or test_size` (walkforward.py:77)
StepOr(s, test) == IF s = None \/ s[1] = 0 THEN test ELSE s[1]

\* walkforward.py:81
Boundary(total, train, test) == total - train - test + 1

\* `train_size <= 1` (walkforward.py:72)
TrainSizeInvalid(train) == train <= 1

\* Variant of TestSizeInvalid: a test slice of one session is accepted.
TestSizeInvalidBelowOne(test) == test <= 0

\* `test_size <= 1` (walkforward.py:74)
TestSizeInvalid(test) == test <= 1

\* Neither check of walkforward.py:72-75 raises.
SizesValid(train, test) == ~TrainSizeInvalid(train) /\ ~TestSizeInvalid(test)

\* a in range(0, boundary, step) continued from a (walkforward.py:85)
InRange(a, boundary, s) == s > 0 /\ a < boundary

WalkInit ==
    /\ pc = "walk_forward_validate"
    /\ closes \in {Ascending(n) : n \in 0..MaxTotal}
    /\ train_size \in 0..MaxSize
    /\ test_size \in 0..MaxSize
    /\ step \in {None} \cup {<< s >> : s \in -1..MaxStep}
    /\ anchor = 0
    /\ runs = <<>>
    /\ walk_result = <<>>
    /\ EngineIdle
    /\ CycleIdle
    /\ EventIdle
    /\ DecisionIdle
    /\ RunIdle

\* `raise ValueError("train_size must be at least 2 sessions")`
RaiseTrainSize ==
    /\ pc = "walk_forward_validate"
    /\ TrainSizeInvalid(train_size)
    /\ pc' = "raised"
    /\ UNCHANGED << closes, engineVars, cycleVars, eventVars, decisionVars, walkVars >>
    /\ UNCHANGED runVars

\* `raise ValueError("test_size must be at least 2 sessions")`
RaiseTestSize ==
    /\ pc = "walk_forward_validate"
    /\ ~TrainSizeInvalid(train_size)
    /\ TestSizeInvalid(test_size)
    /\ pc' = "raised"
    /\ UNCHANGED << closes, engineVars, cycleVars, eventVars, decisionVars, walkVars >>
    /\ UNCHANGED runVars

\* `return {"windows": [], "summary": {}}` (walkforward.py:77-83)
ReturnNoWindows ==
    /\ pc = "walk_forward_validate"
    /\ SizesValid(train_size, test_size)
    /\ Boundary(Len(closes), train_size, test_size) <= 0
    /\ pc' = "walk_returned"
    /\ walk_result' = [windows |-> <<>>, summary |-> <<>>]
    /\ UNCHANGED << closes, engineVars, cycleVars, eventVars, decisionVars,
                    train_size, test_size, step, anchor, runs >>
    /\ UNCHANGED runVars

\* Entering the loop (walkforward.py:77-85)
EnterLoop ==
    /\ pc = "walk_forward_validate"
    /\ SizesValid(train_size, test_size)
    /\ Boundary(Len(closes), train_size, test_size) > 0
    /\ pc' = "windows"
    /\ anchor' = 0
    /\ UNCHANGED << closes, engineVars, cycleVars, eventVars, decisionVars,
                    train_size, test_size, step, runs, walk_result >>
    /\ UNCHANGED runVars

\* One iteration of the loop (walkforward.py:85-108)
BuildWindow ==
    /\ pc = "windows"
    /\ InRange(anchor, Boundary(Len(closes), train_size, test_size),
               StepOr(step, test_size))
    /\ LET w == WalkForwardWindow(anchor, train_size, test_size)
       IN  /\ ~(w.test_end >= Len(closes))
           /\ runs' = Append(runs, WalkForwardRun(closes, w))
    /\ anchor' = anchor + StepOr(step, test_size)
    /\ UNCHANGED << pc, closes, engineVars, cycleVars, eventVars, decisionVars,
                    train_size, test_size, step, walk_result >>
    /\ UNCHANGED runVars

\* The loop ends, by exhaustion or by `break`, and the result is returned
\* (walkforward.py:85, 91-92, 110)
ReturnWindows ==
    /\ pc = "windows"
    /\ \/ ~InRange(anchor, Boundary(Len(closes), train_size, test_size),
                    StepOr(step, test_size))
       \/ WalkForwardWindow(anchor, train_size, test_size).test_end >= Len(closes)
    /\ pc' = "walk_returned"
    /\ walk_result' = [ windows |-> [i \in 1..Len(runs) |-> RunToDict(runs[i])],
                        summary |-> SummarizeRuns(runs) ]
    /\ UNCHANGED << closes, engineVars, cycleVars, eventVars, decisionVars,
                    train_size, test_size, step, anchor, runs >>
    /\ UNCHANGED runVars

WalkNext ==
    \/ RaiseTrainSize
    \/ RaiseTestSize
    \/ ReturnNoWindows
    \/ EnterLoop
    \/ BuildWindow
    \/ ReturnWindows

WalkSpec == WalkInit /\ [][WalkNext]_vars


(***************************************************************************)
(* run_pipeline (engine/main.py:99-136): detect_cycles on the price rows,  *)
(* then trade_engine_cycle_basic on the same rows with the turning points  *)
(* detect_cycles returned.  The ATR and ADX series come from the highs and *)
(* lows of the rows; their values are drawn at the bars that read them.    *)
(***************************************************************************)
\* cycle_events[idx] = str(kind).upper() over the turning points given, a
\* later one replacing an earlier one with the same index
\* (trade_engine.py:156-162); "NONE" for an index without one.
RECURSIVE CycleEventAt(_, _)
CycleEventAt(tps, idx) ==
    IF tps = <<>> THEN "NONE"
    ELSE LET last == tps[Len(tps)]
         IN  IF last.index = idx
             THEN (IF last.kind = "trough" THEN "TROUGH" ELSE "PEAK")
             ELSE CycleEventAt(SubSeq(tps, 1, Len(tps) - 1), idx)

PipelineInit ==
    /\ pc = "run_pipeline"
    /\ prices \in SeqsUpTo(CycleCloses, MaxCloses)
    /\ settings \in SettingsSet
    /\ closes = <<>>
    /\ Locals
    /\ CycleIdle
    /\ OthersIdle
    /\ indicator_series = <<>>
    /\ scenario = 0
    /\ scenario_results = <<>>
    /\ sensitivity = <<>>
    /\ ScoreIdle

\* `cycles, turning_points = detect_cycles(raw_data)` (main.py:99)
PipelineDetectCycles ==
    /\ pc = "run_pipeline"
    /\ pc' = "call"
    /\ segments' = DetectCycles(prices)[1]
    /\ turning_points' = DetectCycles(prices)[2]
    /\ UNCHANGED << closes, engineVars, otherVars, runVars >>

\* The engine called with no price rows (main.py:129-135)
PipelineReturnEmpty ==
    /\ prices = <<>>
    /\ ReturnEmptyStep
    /\ UNCHANGED runVars

\* One bar of the engine's loop over the rows given (main.py:129-135)
PipelineBar ==
    /\ pc \in {"call", "loop"}
    /\ Len(closes) < Len(prices)
    /\ pc' = "loop"
    /\ BarStep(prices[Len(closes) + 1], CycleEventAt(turning_points, Len(closes)))
    /\ UNCHANGED << settings, payload, segments, turning_points, otherVars, runVars >>

\* The engine's loop ends with the rows given (main.py:129-135)
PipelineEndOfData ==
    /\ Len(closes) = Len(prices)
    /\ EndOfDataStep
    /\ UNCHANGED runVars

PipelineNext ==
    \/ PipelineDetectCycles
    \/ PipelineReturnEmpty
    \/ PipelineBar
    \/ PipelineEndOfData

PipelineSpec == PipelineInit /\ [][PipelineNext]_vars

(***************************************************************************)
(* build_fees_sensitivity (trade_engine.py:492-543), called without        *)
(* base_outputs: the engine is run once per cost scenario on the same      *)
(* price rows, turning points and indicator series.  The run of the first  *)
(* scenario reads the rows, turning points and indicator values bar by     *)
(* bar, which fixes them; the later scenarios read the same ones again.    *)
(***************************************************************************)
\* The most price rows a sensitivity run is given.
MaxRows == 2

\* scenarios (trade_engine.py:500-504)
Scenarios ==
    << [name |-> "low", cost_bps |-> 3, slippage_bps |-> 2],
       [name |-> "base", cost_bps |-> 10, slippage_bps |-> 5],
       [name |-> "high", cost_bps |-> 30, slippage_bps |-> 20] >>

\* Variant of ScenarioSettings: the high scenario also stops a trade after
\* one day.
ScenarioSettingsWithTimeStop(base_settings, k) ==
    [base_settings EXCEPT !.cost_bps = Scenarios[k].cost_bps,
                          !.slippage_bps = Scenarios[k].slippage_bps,
                          !.time_stop_days = IF k = 3 THEN 1 ELSE @]

\* scenario_settings (trade_engine.py:512-513)
ScenarioSettings(base_settings, k) ==
    [base_settings EXCEPT !.cost_bps = Scenarios[k].cost_bps,
                          !.slippage_bps = Scenarios[k].slippage_bps]

\* result.get("equity_curves", {}).get("rows", []) (trade_engine.py:522)
RowsOf(result) ==
    IF "equity_curves" \in DOMAIN result /\ result.equity_curves # <<>>
    THEN result.equity_curves.rows ELSE <<>>

\* result.get("trade_log", {}).get("trades", []) (trade_engine.py:533)
TradesOf(result) ==
    IF "trade_log" \in DOMAIN result THEN result.trade_log.trades ELSE <<>>

\* _total_return(series, "strategy_net") (trade_engine.py:114-121)
TotalReturnNet(rows) ==
    IF rows = <<>> THEN Zero
    ELSE LET start == rows[1].strategy_net
             end == rows[Len(rows)].strategy_net
         IN  IF start = 0 THEN Zero ELSE RSub(R(end, start), One)

\* One entry of summary (trade_engine.py:529-535)
ScenarioSummary(name, result) ==
    LET eq_rows == RowsOf(result)
        net_values == [i \in 1..Len(eq_rows) |-> R(eq_rows[i].strategy_net, Pow10(4))]
    IN  [ name |-> name,
          net_total_return |-> Round(TotalReturnNet(eq_rows), 6),
          max_dd |-> Round(MaxDrawdown(net_values), 6),
          num_trades |-> Len(TradesOf(result)) ]

\* rows_by_idx (trade_engine.py:521-527); the scenarios all run on the same
\* rows, so every row gets the three values.
RowsByIdx(results) ==
    [ i \in 1..Len(RowsOf(results[1])) |->
        [ date |-> RowsOf(results[1])[i].date,
          net_low |-> RowsOf(results[1])[i].strategy_net,
          net_base |-> RowsOf(results[2])[i].strategy_net,
          net_high |-> RowsOf(results[3])[i].strategy_net ] ]

SensitivityInit ==
    /\ pc = "call"
    /\ scenario = 1
    /\ settings \in {ScenarioSettings(base_settings, 1) : base_settings \in SettingsSet}
    /\ closes = <<>>
    /\ Locals
    /\ CycleIdle
    /\ OthersIdle
    /\ prices = <<>>
    /\ indicator_series = <<>>
    /\ scenario_results = <<>>
    /\ sensitivity = <<>>
    /\ ScoreIdle

\* One bar of the engine's loop in the first scenario (trade_engine.py:515-517).
\* An index at which the run reads no indicator is one the series have no
\* value for.
FirstScenarioBar ==
    /\ scenario = 1
    /\ pc \in {"call", "loop"}
    /\ Len(closes) < MaxRows
    /\ pc' = "loop"
    /\ \E close \in Prices, event \in Events :
         /\ BarStep(close, event)
         /\ prices' = Append(prices, close)
         /\ turning_points' =
              IF event = "NONE" THEN turning_points
              ELSE Append(turning_points,
                          TurningPoint(Len(closes), IF event = "TROUGH" THEN "trough" ELSE "peak"))
    /\ indicator_series' =
         Append(indicator_series,
                IF in_position' /\ entry_idx' = Len(closes)
                THEN << adx_entry', atr_entry' >> ELSE << None, None >>)
    /\ UNCHANGED << settings, payload, segments, otherVars,
                    scenario, scenario_results, sensitivity, scoreVars >>

\* One bar of the engine's loop in a later scenario (trade_engine.py:515-517)
LaterScenarioBar ==
    /\ scenario > 1
    /\ pc \in {"call", "loop"}
    /\ Len(closes) < Len(prices)
    /\ pc' = "loop"
    /\ BarStep(prices[Len(closes) + 1], CycleEventAt(turning_points, Len(closes)))
    /\ (in_position' /\ entry_idx' = Len(closes))
         => /\ adx_entry' = indicator_series[Len(closes) + 1][1]
            /\ atr_entry' = indicator_series[Len(closes) + 1][2]
    /\ UNCHANGED << settings, payload, segments, turning_points, otherVars, runVars >>

\* A scenario run on no price rows (trade_engine.py:515-517)
ScenarioReturnEmpty ==
    /\ prices = <<>>
    /\ ReturnEmptyStep
    /\ UNCHANGED runVars

\* The end of a scenario's run (trade_engine.py:515-517)
ScenarioEndOfData ==
    /\ Len(closes) = Len(prices)
    /\ EndOfDataStep
    /\ UNCHANGED runVars

\* The next iteration of `for scenario in scenarios` (trade_engine.py:509-517)
NextScenario ==
    /\ pc = "done"
    /\ scenario < Len(Scenarios)
    /\ pc' = "call"
    /\ scenario' = scenario + 1
    /\ scenario_results' = Append(scenario_results, payload)
    /\ settings' = ScenarioSettings(settings, scenario + 1)
    /\ closes' = <<>>
    \* the locals of the new call (trade_engine.py:164-191)
    /\ cycle_events' = <<>>
    /\ trades' = <<>>
    /\ diagnostics' =
         [ cycle_events |-> [trough_confirmed |-> 0, peak_confirmed |-> 0],
           blocked |-> [cooldown |-> 0, already_in_position |-> 0, missing_exit |-> 0],
           notes |-> <<"No hard filters enabled (soft sizing only).">>,
           last_detected_trough |-> -1,
           last_detected_peak |-> -1 ]
    /\ equity_strategy_gross' = R(100, 1)
    /\ equity_strategy_net' = R(100, 1)
    /\ equity_risk' = R(100, 1)
    /\ equity_rows' = <<>>
    /\ in_position' = FALSE
    /\ entry_idx' = -1
    /\ entry_price' = 0
    /\ position_size' = Zero
    /\ cooldown_until' = -1
    /\ max_close' = 0
    /\ min_close' = 0
    /\ equity_path' = <<>>
    /\ intraday_equity' = One
    /\ fees_paid' = Zero
    /\ adx_entry' = None
    /\ atr_entry' = None
    /\ payload' = <<>>
    /\ UNCHANGED << segments, turning_points, otherVars, prices, indicator_series,
                    sensitivity, scoreVars >>

\* The summary and the mapping returned (trade_engine.py:519-543)
ReturnSensitivity ==
    /\ pc = "done"
    /\ scenario = Len(Scenarios)
    /\ pc' = "sensitivity_returned"
    /\ LET results == Append(scenario_results, payload)
       IN  /\ scenario_results' = results
           /\ sensitivity' =
                [ scenarios |-> Scenarios,
                  rows |-> RowsByIdx(results),
                  summary |-> [k \in 1..Len(Scenarios) |->
                                 ScenarioSummary(Scenarios[k].name, results[k])] ]
    /\ UNCHANGED << closes, engineVars, cycleVars, otherVars, prices,
                    indicator_series, scenario, scoreVars >>

SensitivityNext ==
    \/ FirstScenarioBar
    \/ LaterScenarioBar
    \/ ScenarioReturnEmpty
    \/ ScenarioEndOfData
    \/ NextScenario
    \/ ReturnSensitivity

SensitivitySpec == SensitivityInit /\ [][SensitivityNext]_vars

(***************************************************************************)
(* compute_algorithm_score (performance.py:111-229).  The arctangent of    *)
(* _normalized_sharpe is not computed: the value returned is any of a few  *)
(* values of the half of [0, 1] the sign of the mean return puts it in.    *)
(* The sharpe_ratio field of the score, a quotient by a square root, is    *)
(* left out.                                                               *)
(***************************************************************************)
\* The most closes a scored series has.
MaxScored == 4

ScoreKeys == {"hit_rate", "sharpe_ratio", "cycle_capture_rate"}

\* DEFAULT_SCORE_WEIGHTS (performance.py:167-171)
DefaultScoreWeights ==
    [ hit_rate |-> R(4, 10), sharpe_ratio |-> R(35, 100), cycle_capture_rate |-> R(25, 100) ]

\* The value of a key in a caller's mapping: None for a key that is missing
\* or None, else a weight.
WeightValues == { None, Zero, R(-1, 2), One }

\* The weights argument: None, or a mapping; {} is the mapping with every
\* key missing.
ScoreWeights == {None} \cup [ScoreKeys -> WeightValues]

\* _normalize_score_weights (performance.py:174-185)
NormalizeScoreWeights(w) ==
    LET base == [ key \in ScoreKeys |->
                    IF w # None /\ w[key] # None THEN w[key] ELSE DefaultScoreWeights[key] ]
        Positive(key) == IF RLess(Zero, base[key]) THEN base[key] ELSE Zero
        total == RAdd(RAdd(Positive("hit_rate"), Positive("sharpe_ratio")),
                      Positive("cycle_capture_rate"))
    IN  IF RLeq(total, Zero) THEN DefaultScoreWeights
        ELSE [ key \in ScoreKeys |-> RDiv(base[key], total) ]

\* The ratio of one cycle, <<>> for a cycle the loop skips
\* (performance.py:139-159); idx is 0-based.
CaptureRatio(cl, cycle) ==
    LET last_idx == Len(cl) - 1
        third == cycle.length \div 3
        entry_first == LET a == cycle.end_idx - 1
                           b == cycle.start_idx + (IF third > 1 THEN third ELSE 1)
                       IN  IF a < b THEN a ELSE b
        exit_idx == cycle.end_idx
        entry_idx_ == IF entry_first >= exit_idx THEN cycle.start_idx ELSE entry_first
    IN  IF cycle.start_idx >= Len(cl) \/ cycle.end_idx > last_idx THEN <<>>
        ELSE IF cycle.amplitude = Zero THEN <<>>
        ELSE IF entry_idx_ >= exit_idx \/ exit_idx >= Len(cl) THEN <<>>
        ELSE LET entry == cl[entry_idx_ + 1]
                 exit_price == cl[exit_idx + 1]
                 captured == R(exit_price - entry, entry)
             IN  << Clamp(RDiv(RAbs(captured), RAbs(cycle.amplitude)), Zero, One) >>

RECURSIVE CaptureRatios(_, _, _)
CaptureRatios(cl, cs, k) ==
    IF k > Len(cs) THEN <<>>
    ELSE CaptureRatio(cl, cs[k]) \o CaptureRatios(cl, cs, k + 1)

\* _cycle_capture_rate (performance.py:125-164)
CycleCaptureRate(cl, cs) ==
    IF cl = <<>> \/ cs = <<>> THEN Zero
    ELSE LET ratios == CaptureRatios(cl, cs, 1)
         IN  IF ratios = <<>> THEN Zero
             ELSE RDiv(RSum(ratios), R(Len(ratios), 1))

\* changes (performance.py:205-208)
Changes(cl) == [i \in 1..(Len(cl) - 1) |-> R(cl[i + 1] - cl[i], cl[i])]

\* hit_rate (performance.py:212)
HitRate(changes) ==
    IF changes = <<>> THEN Zero
    ELSE R(Cardinality({i \in 1..Len(changes) : RLess(Zero, changes[i])}), Len(changes))

\* _normalized_sharpe (performance.py:111-122): 0.0 where the deviation of the
\* changes is 0, which is where they are all equal; else 0.5 + atan(ratio) /
\* 3.14159 clamped to [0, 1], which lies on the side of 0.5 the mean is on.
NormalizedSharpe(changes) ==
    LET total == RSum(changes)
    IN  IF Len(changes) <= 1 \/ \A i \in 1..Len(changes) : changes[i] = changes[1]
        THEN { Zero }
        ELSE IF RLess(Zero, total) THEN { R(3, 4), One }
        ELSE IF RLess(total, Zero) THEN { Zero, R(1, 4) }
        ELSE { R(1, 2) }

ScoreInit ==
    /\ pc = "compute_algorithm_score"
    /\ closes \in SeqsUpTo(CycleCloses, MaxScored)
    /\ cycles = DetectCycles(closes)[1]
    /\ weights \in ScoreWeights
    /\ score = <<>>
    /\ equity_curve = <<>>
    /\ drawdowns = <<>>
    /\ EngineIdle
    /\ CycleIdle
    /\ EventIdle
    /\ indicator_context = None
    /\ filter_action = ""
    /\ filter_rationale = <<>>
    /\ decision = <<>>
    /\ WalkIdle
    /\ prices = <<>>
    /\ indicator_series = <<>>
    /\ scenario = 0
    /\ scenario_results = <<>>
    /\ sensitivity = <<>>

\* `if len(closes) < 3` (performance.py:202-203)
ReturnZeroScore ==
    /\ pc = "compute_algorithm_score"
    /\ Len(closes) < 3
    /\ pc' = "scored"
    /\ score' = [composite |-> 0, hit_rate |-> Zero, cycle_capture_rate |-> Zero]
    /\ UNCHANGED << closes, engineVars, cycleVars, otherVars, prices, indicator_series,
                    scenario, scenario_results, sensitivity, weights, equity_curve,
                    drawdowns >>

\* The score of three closes or more (performance.py:205-229); `weights` is
\* rebound to the normalized weights at line 217.
ReturnScore ==
    /\ pc = "compute_algorithm_score"
    /\ Len(closes) >= 3
    /\ pc' = "scored"
    /\ \E normalized_sharpe \in NormalizedSharpe(Changes(closes)) :
         LET hit_rate == HitRate(Changes(closes))
             cycle_capture == CycleCaptureRate(closes, cycles)
             normalized == NormalizeScoreWeights(weights)
             composite == RAdd(RAdd(RMul(hit_rate, normalized["hit_rate"]),
                                    RMul(normalized_sharpe, normalized["sharpe_ratio"])),
                               RMul(cycle_capture, normalized["cycle_capture_rate"]))
         IN  /\ weights' = normalized
             /\ score' = [ composite |-> Round(RMul(composite, R(100, 1)), 2),
                           hit_rate |-> hit_rate,
                           cycle_capture_rate |-> cycle_capture ]
    /\ UNCHANGED << closes, engineVars, cycleVars, otherVars, prices, indicator_series,
                    scenario, scenario_results, sensitivity, equity_curve, drawdowns >>

ScoreNext == ReturnZeroScore \/ ReturnScore

ScoreSpec == ScoreInit /\ [][ScoreNext]_vars

(***************************************************************************)
(* The two _max_drawdown functions (performance.py:232-245,                *)
(* trade_engine.py:50-58) on an equity series.                             *)
(***************************************************************************)
\* The most values an equity series has.
MaxEquity == 4

EquityValues == { Zero, R(1, 2), One, R(2, 1), R(3, 1) }

\* _max_drawdown (performance.py:232-245)
PerformanceMaxDrawdown(values) ==
    IF values = <<>> THEN Zero
    ELSE DrawdownLoop(values, 1, values[1], Zero)

DrawdownInit ==
    /\ pc \in {"performance._max_drawdown", "trade_engine._max_drawdown"}
    /\ equity_curve \in SeqsUpTo(EquityValues, MaxEquity)
    /\ drawdowns = <<>>
    /\ weights = None
    /\ score = <<>>
    /\ closes = <<>>
    /\ EngineIdle
    /\ CycleIdle
    /\ OthersIdle
    /\ prices = <<>>
    /\ indicator_series = <<>>
    /\ scenario = 0
    /\ scenario_results = <<>>
    /\ sensitivity = <<>>

\* performance.py:232-245
ReturnPerformanceDrawdown ==
    /\ pc = "performance._max_drawdown"
    /\ pc' = "performance._max_drawdown returned"
    /\ drawdowns' = << PerformanceMaxDrawdown(equity_curve) >>
    /\ UNCHANGED << closes, engineVars, cycleVars, otherVars, prices, indicator_series,
                    scenario, scenario_results, sensitivity, weights, score,
                    equity_curve >>

\* trade_engine.py:50-58
ReturnEngineDrawdown ==
    /\ pc = "trade_engine._max_drawdown"
    /\ pc' = "trade_engine._max_drawdown returned"
    /\ drawdowns' = << MaxDrawdown(equity_curve) >>
    /\ UNCHANGED << closes, engineVars, cycleVars, otherVars, prices, indicator_series,
                    scenario, scenario_results, sensitivity, weights, score,
                    equity_curve >>

DrawdownNext == ReturnPerformanceDrawdown \/ ReturnEngineDrawdown

DrawdownSpec == DrawdownInit /\ [][DrawdownNext]_vars

(***************************************************************************)
(* Properties of the trade engine.                                         *)
(***************************************************************************)
\* The trade log the caller sees: the list being built while the loop runs.
LastTrade == trades[Len(trades)]

\* C1: the trades of the log never overlap: every trade is entered no later
\* than it is exited, the exit bar of a trade is no later than the entry bar
\* of the next one, a position held in the loop was entered no earlier than
\* the last exit, and the ids are 1..n in log order.
C1_TradesNeverOverlap ==
    /\ \A k \in 1..Len(trades) :
         /\ trades[k].id = k
         /\ trades[k].entry_date <= trades[k].exit_date
    /\ \A k \in 1..(Len(trades) - 1) :
         trades[k].exit_date <= trades[k + 1].entry_date
    /\ (pc = "loop" /\ in_position /\ Len(trades) > 0)
         => LastTrade.exit_date <= entry_idx

\* Two trades, the second entered on the bar the first was exited on.
C1_Witness ==
    /\ pc = "done"
    /\ Len(trades) >= 2
    /\ trades[1].exit_date = trades[2].entry_date

\* One loop iteration as seen from its two ends, for bar idx = Len(closes).
BarTaken == Len(closes') = Len(closes) + 1
BarEvent == cycle_events'[Len(closes')]
BarExited == Len(trades') > Len(trades)
BarOpened == in_position' /\ entry_idx' = Len(closes)

\* C2: a position is opened only on a TROUGH bar while flat; a TROUGH bar
\* met while flat at an index below (last exit bar + cooldown_days) opens
\* nothing and adds exactly 1 to blocked.cooldown; entry bar minus previous
\* exit bar is at least cooldown_days for consecutive trades and for the
\* position being held.
C2_Step ==
    LET idx == Len(closes)
        flat == ~in_position \/ BarExited
        in_cooldown == /\ Len(trades') > 0
                       /\ idx < trades'[Len(trades')].exit_date + settings.cooldown_days
        blocked == diagnostics.blocked.cooldown
    IN  BarTaken =>
          /\ BarOpened => (BarEvent = "TROUGH" /\ flat)
          /\ (BarEvent = "TROUGH" /\ flat /\ in_cooldown)
               => (~BarOpened /\ diagnostics'.blocked.cooldown = blocked + 1)
          /\ ~(BarEvent = "TROUGH" /\ flat /\ in_cooldown)
               => diagnostics'.blocked.cooldown = blocked

C2_Gap ==
    /\ \A k \in 1..(Len(trades) - 1) :
         trades[k + 1].entry_date - trades[k].exit_date >= settings.cooldown_days
    /\ (pc = "loop" /\ in_position /\ Len(trades) > 0)
         => entry_idx - LastTrade.exit_date >= settings.cooldown_days

\* C2: every loop iteration obeys the entry rule (C2_Step) and leaves the
\* log with entry bar - previous exit bar >= cooldown_days (C2_Gap).
C2_CooldownEntry == [][C2_Step /\ C2_Gap']_vars

\* A TROUGH was blocked by a positive cooldown and a later one opened the
\* second trade.
C2_Witness ==
    /\ settings.cooldown_days > 0
    /\ diagnostics.blocked.cooldown >= 1
    /\ Len(trades) = 2

\* close <= entry_price - stop_atr_multiple * ATR(entry bar)
StopLevelHit(close) ==
    RLeq(R(close, 1),
         RSub(R(entry_price, 1), RMul(settings.stop_atr_multiple, atr_entry)))

\* The exit rule for a bar that finds a position open, `stop` being the
\* reading of the ATR stop condition on that bar: the position is closed on
\* the bar exactly when the bar is a PEAK, or idx - entry_idx reaches
\* time_stop_days, or stop holds; the trade then logged runs from the entry
\* bar to this bar and carries the first reason that applies in the order
\* PEAK_CONFIRMED, TIME_STOP, STOP_ATR.  A bar that finds no position open
\* logs no trade.
ExitRule(stop) ==
    LET idx == Len(closes)
        peak == BarEvent = "PEAK"
        time == idx - entry_idx >= settings.time_stop_days
        reason == IF peak THEN "PEAK_CONFIRMED"
                  ELSE IF time THEN "TIME_STOP" ELSE "STOP_ATR"
        last == trades'[Len(trades')]
    IN  BarTaken =>
          IF in_position
          THEN /\ BarExited <=> (peak \/ time \/ stop)
               /\ BarExited =>
                    /\ trades' = Append(trades, last)
                    /\ last.entry_date = entry_idx
                    /\ last.exit_date = idx
                    /\ last.exit_reason = reason
          ELSE trades' = trades

\* Every trade was entered on a TROUGH bar, and a PEAK_CONFIRMED trade was
\* exited on the first PEAK bar after its entry.
PeakTrades ==
    \A k \in 1..Len(trades) :
       LET t == trades[k]
       IN  /\ cycle_events[t.entry_date + 1] = "TROUGH"
           /\ t.exit_reason = "PEAK_CONFIRMED" =>
                /\ t.exit_date > t.entry_date
                /\ cycle_events[t.exit_date + 1] = "PEAK"
                /\ \A j \in (t.entry_date + 1)..(t.exit_date - 1) :
                     cycle_events[j + 1] # "PEAK"

\* C3 as stated: the ATR stop holds whenever the entry bar has an ATR value
\* and close <= entry_price - stop_atr_multiple * ATR, an ATR of 0.0 included.
C3_AsStated ==
    [][ExitRule(atr_entry # None /\ StopLevelHit(closes'[Len(closes')])) /\ PeakTrades']_vars

\* C3 (amended): an open position is closed at the first bar after entry at
\* which the bar is a PEAK, or the bars held reach time_stop_days, or the ATR
\* of the entry bar is present and non-zero and close <= entry_price -
\* stop_atr_multiple * ATR; at no earlier bar; the exit_reason is the first
\* that applies of PEAK_CONFIRMED, TIME_STOP, STOP_ATR; a trade entered on a
\* TROUGH and exited PEAK_CONFIRMED runs to the first PEAK after the entry.
C3_ExitRule ==
    [][ExitRule(Truthy(atr_entry) /\ StopLevelHit(closes'[Len(closes')])) /\ PeakTrades']_vars

\* A first trade stopped out by the ATR stop, then a position entered with a
\* missing or zero ATR held through a bar closing at or below its entry price.
C3_Witness ==
    /\ pc = "loop"
    /\ Len(trades) >= 1
    /\ trades[1].exit_reason = "STOP_ATR"
    /\ in_position
    /\ ~Truthy(atr_entry)
    /\ Len(closes) > entry_idx + 1
    /\ closes[Len(closes)] <= entry_price

\* The forced trades of the log.
ForcedTrades ==
    {k \in 1..Len(trades) : trades[k].exit_reason = "FORCED_EXIT_END_OF_DATA"}

\* C4: when, and only when, a position is still open after the last bar, the
\* end of the run appends exactly one trade, FORCED_EXIT_END_OF_DATA, exited
\* on the last bar at the last close, its net_return given by the fee-adjusted
\* formula of a regular exit, and blocked.missing_exit is 1; otherwise the log
\* is unchanged and missing_exit is 0.  A forced trade is the last of the log.
C4_Step ==
    LET last == trades'[Len(trades')]
        last_close == closes[Len(closes)]
    IN  (pc = "loop" /\ pc' = "done") =>
          IF in_position
          THEN /\ Len(trades') = Len(trades) + 1
               /\ trades' = Append(trades, last)
               /\ last.exit_reason = "FORCED_EXIT_END_OF_DATA"
               /\ last.entry_date = entry_idx
               /\ last.exit_date = Len(closes) - 1
               /\ last.exit_price = Round(R(last_close, 1), 4)
               /\ last.net_return =
                    Round(NetReturn(entry_price, last_close, CostRate(settings),
                                    position_size), 4)
               /\ diagnostics'.blocked.missing_exit = 1
               /\ payload'.trade_log.trades = trades'
               /\ payload'.diagnostics.blocked.missing_exit = 1
          ELSE /\ trades' = trades
               /\ diagnostics'.blocked.missing_exit = 0
               /\ payload'.trade_log.trades = trades
               /\ payload'.diagnostics.blocked.missing_exit = 0

C4_ForcedLast ==
    /\ ForcedTrades \subseteq {Len(trades)}
    /\ pc # "done" => (ForcedTrades = {} /\ diagnostics.blocked.missing_exit = 0)

\* C4: the end of the run appends the forced trade exactly when a position is
\* open (C4_Step), and a forced trade is only ever the last of the log
\* (C4_ForcedLast).
C4_ForcedExit == [][C4_Step /\ C4_ForcedLast']_vars

\* A run that ended with a position open after a regular trade.
C4_Witness ==
    /\ pc = "done"
    /\ in_position
    /\ Len(trades) >= 2
    /\ ForcedTrades = {Len(trades)}

\* C5: the strategy_net of the published rows has every entry and exit fee
\* deducted, the fee of the forced end-of-data exit included: the last row's
\* strategy_net is the final net equity.
C5_NetRowsCarryAllFees ==
    (pc = "done" /\ Len(closes) > 0) =>
        payload.equity_curves.rows[Len(closes)].strategy_net
            = Round(equity_strategy_net, 4)

\* The sizing rule for a bar that opens a position, low_atr being the reading
\* of the low-ATR% cut on that bar: position_size is max_position, times 0.5
\* if the ADX of the bar is below adx_min_soft, times 0.5 if low_atr, times
\* 0.9 if ATR/close is above target_daily_vol, clamped to
\* [min_position, max_position].  Every trade is logged with the size its
\* position was opened with.
SizingRule(low_atr) ==
    LET s == settings
        close == closes'[Len(closes')]
        m1 == IF adx_entry' # None /\ RLess(adx_entry', s.adx_min_soft)
              THEN R(1, 2) ELSE One
        m2 == IF low_atr THEN R(1, 2) ELSE One
        m3 == IF atr_entry' # None /\ RLess(s.target_daily_vol, R(atr_entry'.n, atr_entry'.d * close))
              THEN R(9, 10) ELSE One
        raw == RMul(RMul(RMul(s.max_position, m1), m2), m3)
        expected == IF RLess(raw, s.min_position) THEN s.min_position
                    ELSE IF RLess(s.max_position, raw) THEN s.max_position
                    ELSE raw
    IN  /\ (BarTaken /\ BarOpened) =>
             /\ position_size' = expected
             /\ RLeq(s.min_position, position_size')
             /\ RLeq(position_size', s.max_position)
        /\ Len(trades') > Len(trades) =>
             trades'[Len(trades')].size = Round(position_size, 3)

\* ATR/close of the bar just taken is below atr_pct_min_soft.
LowAtrPct ==
    RLess(R(atr_entry'.n, atr_entry'.d * closes'[Len(closes')]), settings.atr_pct_min_soft)

\* Every logged size lies in [min_position, max_position].
SizesInRange ==
    \A k \in 1..Len(trades) :
       /\ Round(settings.min_position, 3) <= trades[k].size
       /\ trades[k].size <= Round(settings.max_position, 3)

C8_EmptyPayload ==
    (pc = "done" /\ Len(closes) = 0) =>
        /\ DOMAIN payload =
             {"meta", "trades", "equity_curves", "risk_metrics", "diagnostics"}
        /\ \A key \in DOMAIN payload : payload[key] = <<>>

\* The call with zero price bars has returned.
C8_Witness == pc = "done" /\ Len(closes) = 0 /\ payload # <<>>

(***************************************************************************)
(* Properties of detect_cycles.                                            *)
(***************************************************************************)
\* closes[i + 1] - closes[i] in Python indices, for 0 <= i < len(closes) - 1.
DeltaAt(i) == closes[i + 2] - closes[i + 1]

\* The most recent non-zero delta before bar i, 0 when there is none.
SlopeBefore(i) ==
    LET J == {j \in 0..(i - 1) : DeltaAt(j) # 0}
    IN  IF J = {} THEN 0
        ELSE DeltaAt(CHOOSE j \in J : \A h \in J : h <= j)

\* The kinds recorded at bar i.
KindsAt(i) ==
    {turning_points[k].kind : k \in {h \in 1..Len(turning_points) : turning_points[h].index = i}}

\* C9: detect_cycles records a peak at bar i exactly when closes[i+1] <
\* closes[i] and the most recent non-zero earlier delta is positive, a trough
\* exactly when closes[i+1] > closes[i] and that delta is negative; a zero
\* delta neither creates a turning point nor resets the slope; the turning
\* points are recorded once each in bar order; a series whose deltas are all
\* non-negative has no turning points and no segments.
C9_TurningPoints ==
    pc = "returned" =>
        /\ \A i \in 0..(Len(closes) - 1) :
             LET has_next == i + 2 <= Len(closes)
             IN  /\ "peak" \in KindsAt(i)
                      <=> (has_next /\ DeltaAt(i) < 0 /\ SlopeBefore(i) > 0)
                 /\ "trough" \in KindsAt(i)
                      <=> (has_next /\ DeltaAt(i) > 0 /\ SlopeBefore(i) < 0)
        /\ \A k \in 1..(Len(turning_points) - 1) :
             turning_points[k].index < turning_points[k + 1].index
        /\ \A k \in 1..Len(turning_points) :
             turning_points[k].index \in 1..(Len(closes) - 2)
        /\ (\A i \in 0..(Len(closes) - 2) : DeltaAt(i) >= 0)
             => (turning_points = <<>> /\ segments = <<>>)

\* A peak recorded at the end of a plateau: the delta before it is zero.
C9_Witness ==
    /\ pc = "returned"
    /\ \E k \in 1..Len(turning_points) :
         /\ turning_points[k].kind = "peak"
         /\ DeltaAt(turning_points[k].index - 1) = 0

\* C10: every segment joins a turning point to the next one, which is of
\* the opposite kind: trough to peak is an upswing, peak to trough a
\* downswing; its length is end_idx - start_idx >= 1; consecutive segments
\* alternate in direction; with fewer than 2 turning points or fewer than 3
\* bars there are no segments.
C10_Segments ==
    pc = "returned" =>
        /\ \A n \in 1..Len(segments) :
             LET seg == segments[n]
             IN  /\ \E k \in 1..(Len(turning_points) - 1) :
                      /\ turning_points[k].index = seg.start_idx
                      /\ turning_points[k + 1].index = seg.end_idx
                      /\ turning_points[k].kind # turning_points[k + 1].kind
                      /\ seg.direction =
                           IF turning_points[k].kind = "trough" THEN "upswing"
                           ELSE "downswing"
                 /\ seg.length = seg.end_idx - seg.start_idx
                 /\ seg.length >= 1
        /\ \A n \in 1..(Len(segments) - 1) :
             segments[n].direction # segments[n + 1].direction
        /\ (Len(turning_points) < 2 \/ Len(closes) < 3) => segments = <<>>

\* Two segments of opposite direction.
C10_Witness ==
    /\ pc = "returned"
    /\ Len(segments) >= 2
    /\ segments[1].direction = "downswing"
    /\ segments[2].direction = "upswing"

(***************************************************************************)
(* Properties of detect_events.                                            *)
(***************************************************************************)
\* The history with only its latest close changed to x.
WithLatest(x) == Append(ButLast(closes), x)

\* C11: for every non-empty history, a single bar included, the baselines
\* and volatility buffers the latest close is compared against come from the
\* bars before the latest one only: whatever the latest close is changed to,
\* detect_events computes the same four thresholds.
C11_ThresholdsIgnoreLatest ==
    pc = "events_returned" =>
        \A x \in EventCloses :
           /\ BaselineLow5(WithLatest(x)) = baseline_low5
           /\ BaselineHigh20(WithLatest(x)) = baseline_high20
           /\ Volatility5(WithLatest(x)) = volatility5
           /\ Volatility20(WithLatest(x)) = volatility20

EventNames == {events[k].name : k \in 1..Len(events)}

\* C12: detect_events on a non-empty history returns a non-empty list; it
\* holds NEUTRAL, at confidence 0.40, exactly when none of SHAKEOUT,
\* DISTRIBUTION_RISK, RECLAIM, RANGE_ACCUMULATION is in it, and NEUTRAL is
\* then the only event.
C12_NeutralFallback ==
    pc = "events_returned" =>
        /\ Len(events) >= 1
        /\ EventNames \subseteq {"SHAKEOUT", "DISTRIBUTION_RISK", "RECLAIM",
                                 "RANGE_ACCUMULATION", "NEUTRAL"}
        /\ "NEUTRAL" \in EventNames
             <=> EventNames \cap {"SHAKEOUT", "DISTRIBUTION_RISK", "RECLAIM",
                                  "RANGE_ACCUMULATION"} = {}
        /\ "NEUTRAL" \in EventNames => events = <<Neutral>>
        /\ Neutral.confidence = R(40, 100)

\* A history of several bars on which nothing fires.
C12_Witness ==
    /\ pc = "events_returned"
    /\ Len(closes) >= 3
    /\ events = <<Neutral>>

(***************************************************************************)
(* Properties of select_action.                                            *)
(***************************************************************************)
\* The latest cycle of length >= 2 among the input cycles.
LongCycles == SelectSeq(cycles, LAMBDA c : c.length >= 2)
LatestCycle == LongCycles[Len(LongCycles)]

\* The static map of events to actions.
StaticAction(name) ==
    IF name = "SHAKEOUT" THEN "BUY"
    ELSE IF name = "RECLAIM" THEN "ADD"
    ELSE IF name = "RANGE_ACCUMULATION" THEN "HOLD"
    ELSE IF name = "DISTRIBUTION_RISK" THEN "REDUCE"
    ELSE "WAIT"

\* C13: market_state is the name of an event of highest confidence among the
\* input events; active_events lists the input events in non-increasing
\* confidence; with no indicator context and no cycles the action is the
\* static map's action for that event, WAIT for a name outside the map; the
\* action is always one of BUY, ADD, HOLD, REDUCE, WAIT.
C13_PrimaryAndBaseAction ==
    pc = "decided" =>
        /\ \E k \in 1..Len(events) :
             /\ events[k].name = decision.market_state
             /\ \A j \in 1..Len(events) :
                  RLeq(events[j].confidence, events[k].confidence)
        /\ Len(decision.active_events) = Len(events)
        /\ \A k \in 1..(Len(events) - 1) :
             RLeq(decision.active_events[k + 1].confidence,
                  decision.active_events[k].confidence)
        /\ (indicator_context = None /\ cycles = <<>>)
             => decision.action = StaticAction(decision.market_state)
        /\ decision.action \in {"BUY", "ADD", "HOLD", "REDUCE", "WAIT"}

\* The strongest event comes second in the input, with no context and no
\* cycles: RECLAIM leads and the action is ADD.
C13_Witness ==
    /\ pc = "decided"
    /\ indicator_context = None
    /\ cycles = <<>>
    /\ Len(events) = 2
    /\ events[1].name = "RANGE_ACCUMULATION"
    /\ decision.market_state = "RECLAIM"
    /\ decision.action = "ADD"

\* The absolute amplitude of the latest length-filtered cycle is below the
\* low amplitude cutoff.
LowAmplitude ==
    /\ LongCycles # <<>>
    /\ RLess(RAbs(LatestCycle.amplitude), decision.cycle_context.low_amplitude_cutoff)

TradeFilterNote ==
    Fragment("Cycle amplitude ({latest_amplitude}) is below the trade filter ({low_cutoff}); deferring trades until swings expand.",
             << decision.cycle_context.latest_amplitude,
                decision.cycle_context.low_amplitude_cutoff >>)

Fragments(text) == {text[k] : k \in 1..Len(text)}

\* C14: whenever the absolute amplitude of the latest length-filtered cycle
\* is below the low amplitude cutoff, the action is WAIT, whatever the
\* primary event, the indicator context and the cycle bias, and the
\* rationale carries the trade-filter note.
C14_LowAmplitudeWaits ==
    (pc = "decided" /\ LowAmplitude) =>
        /\ decision.action = "WAIT"
        /\ TradeFilterNote \in Fragments(decision.rationale)

\* A muted latest cycle under a mature_upswing bias, the indicator stage
\* having left BUY.
C14_Witness ==
    /\ pc = "decided"
    /\ LowAmplitude
    /\ decision.cycle_context.bias = "mature_upswing"
    /\ filter_action = "BUY"
    /\ decision.action = "WAIT"

\* The latest length-filtered cycle is an upswing with length >= 1.2 x the
\* average upswing length and amplitude >= 1.1 x the average upswing
\* amplitude.
MatureUpswing ==
    /\ LongCycles # <<>>
    /\ LatestCycle.direction = "upswing"
    /\ RLeq(RMul(decision.cycle_context.avg_up_length, R(12, 10)),
            R(LatestCycle.length, 1))
    /\ RLeq(RMul(decision.cycle_context.avg_up_amplitude, R(11, 10)),
            LatestCycle.amplitude)

\* C15 as stated: mature_upswing and an indicator-stage action of BUY, ADD,
\* HOLD or WAIT give REDUCE.
C15_AsStated ==
    (pc = "decided" /\ MatureUpswing /\ filter_action \in {"BUY", "ADD", "HOLD", "WAIT"})
        => decision.action = "REDUCE"

\* C15 (amended): the bias is mature_upswing exactly when the latest filtered
\* cycle is such an upswing; with that bias and an indicator-stage action of
\* BUY, ADD, HOLD or WAIT the action is REDUCE unless the latest amplitude is
\* below the low cutoff, and WAIT when it is.
C15_MatureReduces ==
    pc = "decided" =>
        /\ (Get(decision.cycle_context, "bias") = "mature_upswing") <=> MatureUpswing
        /\ (MatureUpswing /\ filter_action \in {"BUY", "ADD", "HOLD", "WAIT"})
             => decision.action = IF LowAmplitude THEN "WAIT" ELSE "REDUCE"

\* A mature upswing that is not muted, the indicator stage having left WAIT.
C15_Witness ==
    /\ pc = "decided"
    /\ MatureUpswing
    /\ ~LowAmplitude
    /\ filter_action = "WAIT"
    /\ decision.action = "REDUCE"

\* The latest length-filtered cycle is an upswing whose absolute amplitude is
\* above the high amplitude cutoff.
HighUpswing ==
    /\ LongCycles # <<>>
    /\ LatestCycle.direction = "upswing"
    /\ RLess(decision.cycle_context.high_amplitude_cutoff, RAbs(LatestCycle.amplitude))

\* C16 as stated: a high-amplitude upswing and an indicator-stage action of
\* BUY, ADD or HOLD give ADD.
C16_AsStated ==
    (pc = "decided" /\ HighUpswing /\ filter_action \in {"BUY", "ADD", "HOLD"})
        => decision.action = "ADD"

\* C16 (amended): a high-amplitude upswing and an indicator-stage action of
\* BUY, ADD or HOLD give ADD unless the cycle bias is mature_upswing, and
\* REDUCE when it is.
C16_HighUpswingAdds ==
    (pc = "decided" /\ HighUpswing /\ filter_action \in {"BUY", "ADD", "HOLD"})
        => decision.action = IF MatureUpswing THEN "REDUCE" ELSE "ADD"

\* A high-amplitude upswing that is not mature, the indicator stage having
\* left HOLD.
C16_Witness ==
    /\ pc = "decided"
    /\ HighUpswing
    /\ ~MatureUpswing
    /\ filter_action = "HOLD"
    /\ decision.action = "ADD"

\* part occurs in text as a run of consecutive fragments.
Contains(text, part) ==
    \E i \in 0..(Len(text) - Len(part)) : SubSeq(text, i + 1, i + Len(part)) = part

IsPrefix(part, text) ==
    Len(part) <= Len(text) /\ SubSeq(text, 1, Len(part)) = part

\* The note of the cycle-bias stage when it overrides the indicator-stage
\* action, empty when it does not.
OverrideNote ==
    IF decision.cycle_context.bias = "mature_upswing"
         /\ filter_action \in {"BUY", "ADD", "HOLD", "WAIT"}
    THEN Text("Cycle maturity suggests tightening risk, elevating reduce/sell threshold.")
    ELSE IF decision.cycle_context.bias = "shallow_downswing" /\ filter_action = "REDUCE"
    THEN Text("Early shallow downswing detected; pausing reductions to confirm trend.")
    ELSE <<>>

\* C17: the rationale is built append-only: the indicator-stage text contains
\* the primary event's rationale unmodified, the final text has the
\* indicator-stage text as a prefix, and the regime note, the cycle-context
\* note and the override note all occur in the final rationale, also when a
\* later stage overrides the action.
C17_RationaleAppendOnly ==
    pc = "decided" =>
        /\ Contains(filter_rationale, Text(Prioritized(events)[1].rationale))
        /\ IsPrefix(filter_rationale, decision.rationale)
        /\ indicator_context # None
             => Contains(decision.rationale, Text(indicator_context.regime_note))
        /\ Contains(decision.rationale, OverrideNote)
        /\ Contains(decision.rationale, decision.cycle_context.note)


(***************************************************************************)
(* Properties of walk_forward_validate.                                    *)
(***************************************************************************)
\* The step the call advances by: the step given, test_size when none is.
GivenStep == IF step = None \/ step = << 0 >> THEN test_size ELSE step[1]

\* total - train_size - test_size + 1
Fit == Len(closes) - train_size - test_size + 1

\* ceil(a / b) for b > 0
CeilDiv(a, b) == (a + b - 1) \div b

\* C18: with train_size >= 2, test_size >= 2, a step s >= 1 (test_size when
\* none is given) and a positive boundary N - train_size - test_size + 1, the
\* call returns exactly ceil(boundary / s) windows; window k has
\* train_start = k*s, train_end = train_start + train_size - 1,
\* test_start = train_end + 1, test_end = test_start + test_size - 1 <= N - 1;
\* summary.windows is the number of windows; N = 20, train 5, test 3 give 5.
C18_WindowCountAndBounds ==
    (pc = "walk_returned" /\ train_size >= 2 /\ test_size >= 2
        /\ GivenStep >= 1 /\ Fit > 0) =>
        /\ Len(walk_result.windows) = CeilDiv(Fit, GivenStep)
        /\ \A k \in 0..(Len(walk_result.windows) - 1) :
             LET w == walk_result.windows[k + 1].window
             IN  /\ w.train_start = k * GivenStep
                 /\ w.train_end = w.train_start + train_size - 1
                 /\ w.test_start = w.train_end + 1
                 /\ w.test_end = w.test_start + test_size - 1
                 /\ w.test_end <= Len(closes) - 1
        /\ walk_result.summary.windows = Len(walk_result.windows)
        /\ (Len(closes) = 20 /\ train_size = 5 /\ test_size = 3 /\ step = None)
             => Len(walk_result.windows) = 5

\* 20 bars, train 5, test 3 and the default step: five windows returned.
C18_Witness ==
    /\ pc = "walk_returned"
    /\ Len(closes) = 20
    /\ train_size = 5
    /\ test_size = 3
    /\ step = None
    /\ Len(walk_result.windows) = 5
    /\ walk_result.windows[5].window.test_end = 19

TrainIndices(w) == w.train_start..w.train_end
TestIndices(w) == w.test_start..w.test_end

\* C19: with the default step (step = test_size) the test slices of two different windows share
\* no bar index, the test slice of window k+1 starts on the bar after the
\* test slice of window k ends, and in each window every train index
\* precedes every test index.
C19_DefaultStepDisjoint ==
    (pc = "walk_returned" /\ GivenStep = test_size) =>
        LET ws == walk_result.windows
        IN  /\ \A i, j \in 1..Len(ws) :
                 i # j => TestIndices(ws[i].window) \cap TestIndices(ws[j].window) = {}
            /\ \A k \in 1..(Len(ws) - 1) :
                 ws[k + 1].window.test_start = ws[k].window.test_end + 1
            /\ \A k \in 1..Len(ws) :
                 \A a \in TrainIndices(ws[k].window), b \in TestIndices(ws[k].window) :
                     a < b

\* Three windows under the default step.
C19_Witness ==
    /\ pc = "walk_returned"
    /\ step = None
    /\ Len(walk_result.windows) = 3
    /\ walk_result.windows[3].window.test_start
         = walk_result.windows[2].window.test_end + 1

\* C20: with train_size < 2 or test_size < 2 the call raises, whatever the
\* length of the series and before any window is built; with both sizes
\* valid and a series shorter than train_size + test_size it returns
\* {windows: [], summary: {}} and does not raise.
C20_SizeErrorsAndShortSeries ==
    /\ (pc = "walk_forward_validate" /\ (train_size < 2 \/ test_size < 2))
         => /\ ENABLED (RaiseTrainSize \/ RaiseTestSize)
            /\ ~ENABLED (ReturnNoWindows \/ EnterLoop)
    /\ (pc # "walk_forward_validate" /\ (train_size < 2 \/ test_size < 2))
         => pc = "raised" /\ runs = <<>> /\ walk_result = <<>>
    /\ (pc = "walk_forward_validate" /\ train_size >= 2 /\ test_size >= 2
          /\ Len(closes) < train_size + test_size)
         => /\ ENABLED ReturnNoWindows
            /\ ~ENABLED (RaiseTrainSize \/ RaiseTestSize \/ EnterLoop)
    /\ (pc # "walk_forward_validate" /\ train_size >= 2 /\ test_size >= 2
          /\ Len(closes) < train_size + test_size)
         => /\ pc = "walk_returned"
            /\ walk_result = [windows |-> <<>>, summary |-> <<>>]

\* A size error on a series too short for a window.
C20_Witness ==
    /\ pc = "raised"
    /\ train_size = 2
    /\ test_size = 1
    /\ Len(closes) = 2
    /\ runs = <<>>


(***************************************************************************)
(* Further properties of the trade engine.                                 *)
(***************************************************************************)
\* A looked-up indicator value, 0.0 standing in for a missing one.
OrZero(x) == IF x = None THEN Zero ELSE x

\* C24: in the position-size calculation an ADX or ATR value missing at the
\* entry bar is treated as 0.0: a bar that opens a position sizes it as
\* _soft_position_size does with 0.0 in place of each missing value.
C24_MissingSizedAsZero ==
    [][(BarTaken /\ BarOpened) =>
          position_size' = SoftPositionSize(OrZero(adx_entry'), OrZero(atr_entry'),
                                            closes'[Len(closes')], settings)]_vars


\* C25: at the end of a run diagnostics.cycle_events.trough_confirmed is the
\* number of logged trades + blocked.cooldown + blocked.already_in_position;
\* during the run the position held counts for the trade it will log: every
\* TROUGH bar is exactly one of an entry, a cooldown block and an
\* already-in-position block, also when an exit falls on the same bar.
C25_TroughsAccounted ==
    LET d == diagnostics
        open == IF pc # "done" /\ in_position THEN 1 ELSE 0
    IN  /\ d.cycle_events.trough_confirmed
             = Len(trades) + open + d.blocked.cooldown + d.blocked.already_in_position
        /\ (pc = "done" /\ Len(closes) > 0) =>
             payload.diagnostics.cycle_events.trough_confirmed
               = Len(payload.trade_log.trades)
                   + payload.diagnostics.blocked.cooldown
                   + payload.diagnostics.blocked.already_in_position

\* A finished run in which a time stop and a TROUGH fell on the same bar.
C25_Witness ==
    /\ pc = "done"
    /\ \E k \in 1..Len(trades) :
         /\ trades[k].exit_reason = "TIME_STOP"
         /\ cycle_events[trades[k].exit_date + 1] = "TROUGH"
    /\ diagnostics.cycle_events.trough_confirmed >= 2


\* max(1, time_stop_days)
LongestHold == IF settings.time_stop_days > 1 THEN settings.time_stop_days ELSE 1

\* C26: no trade is exited on its entry bar and no position outlives the time
\* stop: a trade with a regular exit has 1 <= hold_days <= max(1,
\* time_stop_days), a FORCED_EXIT_END_OF_DATA trade has 0 <= hold_days <
\* max(1, time_stop_days), hold_days being exit bar - entry bar; a position
\* held after a bar has been held for fewer than max(1, time_stop_days) bars.
C26_HoldWithinTimeStop ==
    /\ \A k \in 1..Len(trades) :
         LET t == trades[k]
         IN  /\ t.hold_days = t.exit_date - t.entry_date
             /\ IF t.exit_reason = "FORCED_EXIT_END_OF_DATA"
                THEN 0 <= t.hold_days /\ t.hold_days < LongestHold
                ELSE 1 <= t.hold_days /\ t.hold_days <= LongestHold
    /\ (pc = "loop" /\ in_position) => (Len(closes) - 1) - entry_idx < LongestHold

\* A trade closed by a time stop of two days after exactly two bars.
C26_Witness ==
    /\ settings.time_stop_days = 2
    /\ \E k \in 1..Len(trades) :
         trades[k].exit_reason = "TIME_STOP" /\ trades[k].hold_days = 2

\* A time stop of zero days: the trade is closed one bar after its entry.
C26_ZeroTimeStop ==
    /\ settings.time_stop_days = 0
    /\ \E k \in 1..Len(trades) :
         trades[k].exit_reason = "TIME_STOP" /\ trades[k].hold_days = 1


\* The closes of the bars from a trade's entry bar to its exit bar.
ClosesOf(t) == {closes[j + 1] : j \in t.entry_date..t.exit_date}

Highest(S) == CHOOSE x \in S : \A y \in S : y <= x
Lowest(S) == CHOOSE x \in S : \A y \in S : x <= y

\* C29: for every trade (entry prices are positive) mae <= 0 <= mfe,
\* mae <= gross_return <= mfe and max_drawdown_trade <= 0; mfe and mae are
\* the excursions of the highest and the lowest close from the entry bar to
\* the exit bar, both included; while a position is held its equity path
\* starts at 1.0 on the entry bar and has one value per bar since.
C29_ExcursionsBracketReturn ==
    /\ \A k \in 1..Len(trades) :
         LET t == trades[k]
             entry == closes[t.entry_date + 1]
         IN  /\ t.mae <= 0 /\ 0 <= t.mfe
             /\ t.mae <= t.gross_return /\ t.gross_return <= t.mfe
             /\ t.max_drawdown_trade <= 0
             /\ t.mfe = Round(R(Highest(ClosesOf(t)) - entry, entry), 4)
             /\ t.mae = Round(R(Lowest(ClosesOf(t)) - entry, entry), 4)
    /\ (pc = "loop" /\ in_position) =>
         /\ Len(equity_path) = Len(closes) - entry_idx
         /\ equity_path[1] = One

\* A trade that closed below the highest close it had seen: mfe above the
\* gross return and a drawdown on its own equity path.
C29_Witness ==
    \E k \in 1..Len(trades) :
       /\ trades[k].gross_return < trades[k].mfe
       /\ trades[k].max_drawdown_trade < 0
       /\ trades[k].hold_days = 2


\* C27: when the turning points handed to the engine are those detect_cycles
\* returns for the same prices, no TROUGH is met while a position is open:
\* blocked.already_in_position stays 0 for every price series and settings.
C27_NoTroughWhileOpen ==
    /\ diagnostics.blocked.already_in_position = 0
    /\ (pc = "done" /\ prices # <<>>)
         => payload.diagnostics.blocked.already_in_position = 0

\* A finished run over two troughs with a peak between them: two entries.
C27_Witness ==
    /\ pc = "done"
    /\ diagnostics.cycle_events.trough_confirmed = 2
    /\ diagnostics.cycle_events.peak_confirmed >= 1
    /\ Len(trades) = 2
    /\ trades[1].exit_reason = "PEAK_CONFIRMED"

(***************************************************************************)
(* Properties of build_fees_sensitivity.                                   *)
(***************************************************************************)
\* The fields of a trade the costs have no part in.
TradeDecision(t) ==
    [ id |-> t.id, entry_date |-> t.entry_date, entry_price |-> t.entry_price,
      entry_reason |-> t.entry_reason, size |-> t.size, exit_date |-> t.exit_date,
      exit_price |-> t.exit_price, exit_reason |-> t.exit_reason,
      gross_return |-> t.gross_return, hold_days |-> t.hold_days,
      mfe |-> t.mfe, mae |-> t.mae, max_drawdown_trade |-> t.max_drawdown_trade ]

TradeDecisions(result) ==
    [i \in 1..Len(TradesOf(result)) |-> TradeDecision(TradesOf(result)[i])]

GrossSeries(result) ==
    [i \in 1..Len(RowsOf(result)) |->
        << RowsOf(result)[i].date, RowsOf(result)[i].buy_hold,
           RowsOf(result)[i].strategy_gross >>]

C28_ReduceOnlyFromMatureBias ==
    /\ pc \in {"events_returned", "decided"} =>
         /\ "DISTRIBUTION_RISK" \in EventNames => "SHAKEOUT" \in EventNames
         /\ "SHAKEOUT" \in EventNames =>
              /\ "RECLAIM" \notin EventNames
              /\ "RANGE_ACCUMULATION" \notin EventNames
    /\ pc = "decided" =>
         /\ decision.market_state # "DISTRIBUTION_RISK"
         /\ filter_action # "REDUCE"
         /\ decision.action = "REDUCE" => decision.cycle_context.bias = "mature_upswing"

\* Both SHAKEOUT and DISTRIBUTION_RISK detected, and REDUCE decided.
C28_Witness ==
    /\ pc = "decided"
    /\ {"SHAKEOUT", "DISTRIBUTION_RISK"} \subseteq EventNames
    /\ decision.market_state = "SHAKEOUT"
    /\ decision.action = "REDUCE"

(***************************************************************************)
(* Properties of the indicator filters after a SHAKEOUT.                   *)
(***************************************************************************)
RsiBelow(v) ==
    /\ indicator_context.latest_rsi # None
    /\ RLess(indicator_context.latest_rsi, R(v, 1))

\* The threshold the claim names for a regime.
StatedThreshold ==
    IF indicator_context.regime = "uptrend" THEN 45
    ELSE IF indicator_context.regime \in {"range", "neutral"} THEN 32
    ELSE 30

StatedBuyKept ==
    \/ /\ indicator_context.regime = "downtrend"
       /\ RsiBelow(28)
       /\ indicator_context.macd_improving
    \/ /\ indicator_context.regime # "downtrend"
       /\ RsiBelow(StatedThreshold) \/ indicator_context.macd_improving

\* C23: with SHAKEOUT as the primary event and an indicator context, the
\* indicator stage gives BUY when, in a downtrend, RSI < 28 and MACD is
\* improving or, in any other regime, RSI is below the regime's threshold
\* (45, 32, 30) or MACD is improving, and gives WAIT in every other case;
\* without a context it gives the event's action, BUY.
C23_ShakeoutBuyGate ==
    (pc = "decided" /\ decision.market_state = "SHAKEOUT") =>
        IF indicator_context = None THEN filter_action = "BUY"
        ELSE filter_action = (IF StatedBuyKept THEN "BUY" ELSE "WAIT")

\* BUY downgraded for a missing RSI with MACD not improving.
C23_Witness ==
    /\ pc = "decided"
    /\ decision.market_state = "SHAKEOUT"
    /\ indicator_context # None
    /\ indicator_context.latest_rsi = None
    /\ ~indicator_context.macd_improving
    /\ indicator_context.regime = "uptrend"
    /\ filter_action = "WAIT"

(***************************************************************************)
(* Properties of compute_algorithm_score.                                  *)
(***************************************************************************)
WeightSum ==
    RAdd(RAdd(weights["hit_rate"], weights["sharpe_ratio"]), weights["cycle_capture_rate"])

\* C21: once compute_algorithm_score has scored three closes or more, the
\* weights it used sum to 1 and the composite, kept in hundredths, is within
\* [0, 100], whatever weights mapping the caller gave.
C21_WeightsSumToOne ==
    (pc = "scored" /\ Len(closes) >= 3) =>
        /\ WeightSum = One
        /\ score.composite >= 0
        /\ score.composite <= 100 * Pow10(2)

(***************************************************************************)
(* Properties of the _max_drawdown functions.                              *)
(***************************************************************************)
DrawdownReturned ==
    pc \in {"performance._max_drawdown returned", "trade_engine._max_drawdown returned"}

PositiveSeries == \A i \in 1..Len(equity_curve) : RLess(Zero, equity_curve[i])

NonDecreasing ==
    \A i \in 1..(Len(equity_curve) - 1) : RLeq(equity_curve[i], equity_curve[i + 1])

\* The largest of the first i values.
RunningPeak(i) ==
    CHOOSE p \in {equity_curve[j] : j \in 1..i} :
        \A j \in 1..i : RLeq(equity_curve[j], p)

DrawdownAt(i) == RDiv(RSub(equity_curve[i], RunningPeak(i)), RunningPeak(i))

MostNegativeDrawdown ==
    IF equity_curve = <<>> THEN Zero
    ELSE CHOOSE m \in {DrawdownAt(i) : i \in 1..Len(equity_curve)} :
            \A i \in 1..Len(equity_curve) : RLeq(m, DrawdownAt(i))

\* C22: on a series of positive values either _max_drawdown returns a value
\* that is at most 0 and is the most negative (value - running peak) /
\* running peak of the series; it returns 0 on a non-decreasing series and on
\* the empty series.
C22_MaxDrawdown ==
    (DrawdownReturned /\ PositiveSeries) =>
        /\ RLeq(drawdowns[1], Zero)
        /\ drawdowns[1] = MostNegativeDrawdown
        /\ NonDecreasing => drawdowns[1] = Zero

\* A series that rises to a new peak and then dips.
C22_Witness ==
    /\ pc = "performance._max_drawdown returned"
    /\ PositiveSeries
    /\ Len(equity_curve) >= 3
    /\ RLess(equity_curve[1], equity_curve[2])
    /\ RLess(equity_curve[3], equity_curve[2])
    /\ RLess(drawdowns[1], Zero)

====
